---- MODULE Spec2Model ----
(***************************************************************************)
(* AccelBench: the run lifecycle engine (Orchestrator.Execute), the        *)
(* cancellation registry, the cancel / delete / create HTTP handlers and   *)
(* the relational repository they share.                                   *)
(*                                                                         *)
(* The repository is the production one (internal/database/repository.go, *)
(* a pgx pool over PostgreSQL): every call takes the caller's context and  *)
(* fails when that context is already cancelled, every call may fail with  *)
(* a database error, and a transaction is atomic.                          *)
(***************************************************************************)
EXTENDS Integers, FiniteSets, Sequences, TLC

(* ---------------------------------------------------------------------- *)
(* Bounds                                                                  *)
(* ---------------------------------------------------------------------- *)

\* run ids handed out by CreateBenchmarkRun (opaque UUIDs in the code)
Runs == {"r1", "r2"}

\* the run ids the clients of Spec submit through POST /runs
SpecRuns == {"r1"}

\* metric values ComputeMetrics can produce (abstract payloads)
MetricVals == {"m1", "m2"}

\* polls of the readiness wait before its deadline has passed
\* (readinessTimeout / readinessPoll in the code)
MaxReadyPolls == 1

\* polls of the job wait before its deadline has passed (jobTimeout / jobPoll)
MaxJobPolls == 1

\* cancel / delete requests the clients send in one behaviour
MaxRequests == 2

\* repository operations applied in one behaviour of RepoSpec
MaxRepoOps == 4

(* ---------------------------------------------------------------------- *)
(* State                                                                   *)
(* ---------------------------------------------------------------------- *)

VARIABLES
    runs,              \* benchmark_runs: run id -> row (NoRun when absent)
    metrics,           \* benchmark_metrics: run id -> row (NoMetrics when absent)
    clock,             \* per run: the next value time.Now() returns
    cancels,           \* Orchestrator.cancels: ids with a registered cancel func
    ctxDone,           \* per run: Execute's derived context is cancelled
    pc,                \* per run: position of the Execute goroutine
    polls,             \* per run: polls done by the current wait loop
    computed,          \* per run: Execute's local `computed` metrics value
    gpuScraper,        \* per run: Execute's local gpuScraper is not nil
    deployments,       \* cluster: names of existing Deployments
    services,          \* cluster: names of existing Services
    jobs,              \* cluster: names of existing Jobs
    hpc,               \* per run: position of the HTTP handler working on it
    reqs,              \* number of cancel / delete requests received
    resp,              \* per run: last HTTP status a handler answered (0: none)
    cancelOK,          \* per run: the cancel handler has answered 200
    hrun,              \* per run: status of the handler's local `run` record
    cancelKinds,       \* per run: the kinds of CancelRun calls made so far
    createResp,        \* the last answer of the create-run handler
    result,            \* per run: what Execute returned ("none" while running)
    markFailedResult,  \* per run: outcome of Execute's markFailed call
    cancelledInWait,   \* per run: which wait returned the cancellation error
    trace,             \* per run: what Execute has done so far, in order
    last,              \* RepoSpec: the repository operation of the last step
    runAttrs,          \* benchmark_runs: run id -> model, instance type, run_type
    catalogResult,     \* CatalogSpec: the last ListCatalog call and its answer
    models,            \* models: the set of rows
    ensure,            \* per caller: its EnsureModel call (position, key, answer)
    pricing,           \* pricing: the set of rows
    upstream,          \* AWS Pricing API: (region, instance type) -> hourly price
    day,               \* the calendar day
    refresher,         \* pricingrefresh: run number, loop position, its `today`
    pricingOp,         \* PricingSpec: what the refresher's last iteration did
    outRequests,       \* LoadgenOutput.Requests handed to ComputeMetrics
    summary,           \* LoadgenOutput.Summary handed to ComputeMetrics
    bm,                \* the BenchmarkMetrics ComputeMetrics returned
    data,              \* the log buffer handed to ParseLoadgenOutput
    parsed,            \* what ParseLoadgenOutput returned
    scraper,           \* the GPUScraper: its buffers, its context, its done channel
    scraperPc,         \* where the scraper's loop and the Stop call stand
    pvals,             \* the slice a caller hands to percentiles
    pcts,              \* what percentiles returned for it
    request,           \* the RunRequest of the configuration handed to launchLoadgen
    loadgenParams,     \* the parameters launchLoadgen rendered the job with
    createdAt,         \* benchmark_runs.created_at, per run (0: no row)
    listing            \* a client paging through ListRuns: implementation, filter, pages so far

catalogVars == <<runAttrs, catalogResult>>

ensureVars == <<models, ensure>>

pricingVars == <<pricing, upstream, day, refresher, pricingOp>>

metricsVars == <<outRequests, summary, bm>>

parseVars == <<data, parsed>>

percentileVars == <<pvals, pcts>>

loadgenVars == <<request, loadgenParams>>

listVars == <<createdAt, listing>>

scraperVars == <<scraper, scraperPc>>

\* what the specification of percentiles leaves alone
notPercentileVars == <<last, catalogVars, ensureVars, pricingVars,
                       metricsVars, parseVars, scraperVars,
                       loadgenVars,
                       listVars>>

\* what the specification of launchLoadgen leaves alone
notLoadgenVars == <<last, catalogVars, ensureVars, pricingVars, metricsVars,
                    parseVars, scraperVars, percentileVars,
                    listVars>>

\* what the specification of ListRuns leaves alone
notListVars == <<last, catalogVars, ensureVars, pricingVars, metricsVars,
                 parseVars, scraperVars, percentileVars, loadgenVars>>

\* what the specifications of single operations keep besides the service
auxVars == <<last, catalogVars, ensureVars, pricingVars, metricsVars, parseVars, scraperVars,
             percentileVars,
             loadgenVars,
             listVars>>

\* what the repository's own specification leaves alone
notRepoVars == <<catalogVars, ensureVars, pricingVars, metricsVars, parseVars, scraperVars,
                 percentileVars,
                 loadgenVars,
                 listVars>>

\* what the catalog's specification leaves alone
notCatalogVars == <<last, ensureVars, pricingVars, metricsVars, parseVars, scraperVars,
                    percentileVars,
                    loadgenVars,
                    listVars>>

\* what the specification of EnsureModel leaves alone
notEnsureVars == <<last, catalogVars, pricingVars, metricsVars, parseVars, scraperVars,
                   percentileVars,
                   loadgenVars,
                   listVars>>

\* what the specification of the pricing refresher leaves alone
notPricingVars == <<last, catalogVars, ensureVars, metricsVars, parseVars, scraperVars,
                    percentileVars,
                    loadgenVars,
                    listVars>>

\* what the specification of ComputeMetrics leaves alone
notMetricsVars == <<last, catalogVars, ensureVars, pricingVars, parseVars, scraperVars,
                    percentileVars,
                    loadgenVars,
                    listVars>>

\* what the specification of the scraper leaves alone
notScraperVars == <<last, catalogVars, ensureVars, pricingVars, metricsVars,
                    parseVars,
                    percentileVars,
                    loadgenVars,
                    listVars>>

\* what the specification of ParseLoadgenOutput leaves alone
notParseVars == <<last, catalogVars, ensureVars, pricingVars, metricsVars, scraperVars,
                  percentileVars,
                  loadgenVars,
                  listVars>>

vars == <<runs, metrics, clock, cancels, ctxDone, pc, polls, computed,
          gpuScraper, deployments, services, jobs, hpc, reqs, resp, cancelOK,
          hrun, cancelKinds, createResp, result, markFailedResult,
          cancelledInWait, trace, auxVars>>

repoVars    == <<runs, metrics, clock>>
clusterVars == <<deployments, services, jobs>>
handlerAux  == <<hrun, cancelKinds, createResp>>
handlerVars == <<hpc, reqs, resp, cancelOK, handlerAux>>
ghostVars   == <<result, markFailedResult, cancelledInWait, trace>>

(* ---------------------------------------------------------------------- *)
(* Repository (internal/database)                                          *)
(* ---------------------------------------------------------------------- *)

\* timestamps: 0 is SQL NULL
NoRun == [status |-> "none", started_at |-> 0, completed_at |-> 0,
          superseded |-> FALSE]

NoMetrics == [run_id |-> "none", val |-> "none"]

Statuses == {"pending", "running", "completed", "failed"}

Terminal == {"completed", "failed"}

\* benchmark_metrics.run_id is UNIQUE NOT NULL and REFERENCES benchmark_runs(id)
MetricsRunIdUnique == TRUE

\* CreateBenchmarkRun: INSERT with the caller's status; superseded defaults
\* to FALSE, started_at / completed_at to NULL.
CreateBenchmarkRun(rs, id, status) ==
    [rs EXCEPT ![id] = [status |-> status, started_at |-> 0,
                        completed_at |-> 0, superseded |-> FALSE]]

\* UpdateRunStatus: an unconditional UPDATE ... WHERE id = $n.  A missing row
\* updates nothing and is no error.
UpdateRunStatus(rs, id, status, now) ==
    IF rs[id] = NoRun THEN rs
    ELSE CASE status = "running" ->
                [rs EXCEPT ![id].status = status, ![id].started_at = now]
           [] status \in {"completed", "failed"} ->
                [rs EXCEPT ![id].status = status, ![id].completed_at = now]
           [] OTHER ->
                [rs EXCEPT ![id].status = status]

\* PersistMetrics with an upsert instead of a plain INSERT
PersistMetrics_Overwrite(rs, ms, id, m, now, dbErr) ==
    IF dbErr \/ rs[id] = NoRun
    THEN [runs |-> rs, metrics |-> ms, err |-> TRUE]
    ELSE [runs    |-> [rs EXCEPT ![id].status = "completed",
                                 ![id].completed_at = now],
          metrics |-> [ms EXCEPT ![id] = [run_id |-> id, val |-> m]],
          err     |-> FALSE]

\* PersistMetrics without the transaction: the insert stays when a later
\* statement fails
PersistMetrics_NonAtomic(rs, ms, id, m, now, dbErr) ==
    IF ms[id] # NoMetrics \/ rs[id] = NoRun
    THEN [runs |-> rs, metrics |-> ms, err |-> TRUE]
    ELSE IF dbErr
    THEN [runs |-> rs,
          metrics |-> [ms EXCEPT ![id] = [run_id |-> id, val |-> m]],
          err |-> TRUE]
    ELSE [runs    |-> [rs EXCEPT ![id].status = "completed",
                                 ![id].completed_at = now],
          metrics |-> [ms EXCEPT ![id] = [run_id |-> id, val |-> m]],
          err     |-> FALSE]

\* PersistMetrics that flips the status but loses the metrics insert
PersistMetrics_NoInsert(rs, ms, id, m, now, dbErr) ==
    IF dbErr \/ ms[id] # NoMetrics \/ rs[id] = NoRun
    THEN [runs |-> rs, metrics |-> ms, err |-> TRUE]
    ELSE [runs    |-> [rs EXCEPT ![id].status = "completed",
                                 ![id].completed_at = now],
          metrics |-> ms,
          err     |-> FALSE]

\* PersistMetrics on a schema without the foreign key of run_id
PersistMetrics_NoForeignKey(rs, ms, id, m, now, dbErr) ==
    IF dbErr \/ ms[id] # NoMetrics
    THEN [runs |-> rs, metrics |-> ms, err |-> TRUE]
    ELSE [runs    |-> UpdateRunStatus(rs, id, "completed", now),
          metrics |-> [ms EXCEPT ![id] = [run_id |-> id, val |-> m]],
          err     |-> FALSE]

\* PersistMetrics: one transaction.  INSERT the metrics row (fails on the
\* unique / foreign key of run_id), read it back and compare its run_id,
\* UPDATE the run to completed, COMMIT.  Any error (dbErr: begin, a statement,
\* the commit, or a cancelled context) rolls everything back.
PersistMetrics(rs, ms, id, m, now, dbErr) ==
    LET insertFails == (MetricsRunIdUnique /\ ms[id] # NoMetrics)
                       \/ rs[id] = NoRun
        inserted    == [run_id |-> id, val |-> m]
        verifyRunID == inserted.run_id
    IN  IF dbErr \/ insertFails \/ verifyRunID # id
        THEN [runs |-> rs, metrics |-> ms, err |-> TRUE]
        ELSE [runs    |-> [rs EXCEPT ![id].status = "completed",
                                     ![id].completed_at = now],
              metrics |-> [ms EXCEPT ![id] = inserted],
              err     |-> FALSE]

\* DeleteRun: one transaction deleting the metrics row, then the run row.
DeleteRun(rs, ms, id, dbErr) ==
    IF dbErr
    THEN [runs |-> rs, metrics |-> ms, err |-> TRUE]
    ELSE [runs    |-> [rs EXCEPT ![id] = NoRun],
          metrics |-> [ms EXCEPT ![id] = NoMetrics],
          err     |-> FALSE]

\* GetBenchmarkRun / GetMetricsByRunID: point lookups
GetBenchmarkRun(id) == runs[id]

GetMetricsByRunID(id) == metrics[id]

\* ListRuns with an optional status filter ("" for none): ids of the rows
ListRuns(status) ==
    {id \in Runs : runs[id] # NoRun /\ (status = "" \/ runs[id].status = status)}

\* ListCatalog with no filters: benchmark_runs JOIN benchmark_metrics
\* WHERE status = 'completed' AND superseded = FALSE (every run of the model
\* references an existing model and instance type; the default LIMIT 100 is
\* above the number of runs of the model)
ListCatalog ==
    {id \in Runs : /\ runs[id] # NoRun
                   /\ runs[id].status = "completed"
                   /\ runs[id].superseded = FALSE
                   /\ metrics[id] # NoMetrics
                   /\ metrics[id].run_id = id}

\* RepoSpec's record of a repository call: the operation, its run id,
\* whether the run had a metrics row before it, whether the database
\* failed underneath it, and whether it returned an error
NoOp == [op |-> "none", run |-> "none", had |-> FALSE, dbErr |-> FALSE,
         err |-> FALSE]

\* the columns of a benchmark_runs row that no operation changes after the
\* INSERT
NoAttrs == [model_id |-> "none", instance_type_id |-> "none",
            run_type |-> "none"]

\* CatalogFilter{} and no answer yet
NoCatalogResult ==
    [called |-> FALSE, impl |-> "none", err |-> FALSE, rows |-> <<>>,
     filter |-> [ModelHfID |-> "", ModelFamily |-> "", InstanceFamily |-> "",
                 AcceleratorType |-> "", Limit |-> 0]]

\* the goroutines that call EnsureModel at the same time
Callers == {"c1", "c2", "c3"}

\* (hf_id, hf_revision) of the models asked for
ModelKeys == {<<"meta-llama/Llama-3.1-8B", "main">>,
              <<"meta-llama/Llama-3.1-8B", "abc">>}

\* a caller that has not called EnsureModel yet
NoCall == [pc |-> "idle", key |-> <<>>, id |-> 0, err |-> "none"]

\* PRICING_REGIONS and the instance types ListInstanceTypes returns: the
\* (region, instance type) pairs in the order the refresher's loops visit
Worklist == <<[region |-> "us-east-2", it |-> "i1"],
              [region |-> "us-west-2", it |-> "i1"]>>

\* on-demand hourly prices the Pricing API can answer (0: no price list)
Prices == {0, 1, 2}

MaxDays == 2

MaxRefreshRuns == 2

\* the refresher before its first run
NoRefresh == [run |-> 0, i |-> 0, today |-> 0, failed |-> FALSE,
              changed |-> FALSE]

NoPricingOp == [kind |-> "none", p |-> <<>>]

\* the largest concurrency a run request asks for
MaxConcurrency == 64

\* no run request has been received
NoRequest == [set |-> FALSE, concurrency |-> 0]

\* launchLoadgen has not rendered a job
NoLoadgenParams == [rendered |-> FALSE, NumRequests |-> 0, WarmupRequests |-> 0]

\* no client is paging through ListRuns
NoListing == [started |-> FALSE]

\* the measurements (milliseconds) a request result can carry
Measurements == {1, 2}

\* the values a slice handed to percentiles can hold
Values == {10, 20, 30}

\* the longest slice handed to percentiles
MaxVals == 4

\* percentiles has not been called
NoPercentiles == [called |-> FALSE]

\* the longest Requests list handed to ComputeMetrics
MaxResults == 3

\* the output token counts a request result can carry
OutputTokens == {2}

\* the durations (seconds) a request result can carry
Durations == {0, 1}

\* RequestResult: the fields ComputeMetrics reads
RequestResults ==
    [ttft_ms : Measurements, e2e_latency_ms : Measurements,
     itl_ms : Measurements, output_tokens : OutputTokens,
     duration_seconds : Durations, success : BOOLEAN]

\* Summary: the fields ComputeMetrics copies; the load generator's two
\* reports differ in each of them
Summaries ==
    {[total_duration_seconds |-> 5, successful_requests |-> 0,
      failed_requests |-> 3, throughput_aggregate_tps |-> 0,
      requests_per_second |-> 1],
     [total_duration_seconds |-> 7, successful_requests |-> 2,
      failed_requests |-> 1, throughput_aggregate_tps |-> 4,
      requests_per_second |-> 3]}

\* no output has been handed over
NoSummary == [total_duration_seconds |-> 0, successful_requests |-> 0,
              failed_requests |-> 0, throughput_aggregate_tps |-> 0,
              requests_per_second |-> 0]

\* ComputeMetrics has not been called
NoBenchmarkMetrics == [called |-> FALSE]

\* the JSON documents of the input schema a log can carry: with an empty or
\* a non-empty requests array, printed on one line or over several
Payloads == [kind : {"json"}, requests : {0, 2}, multiline : BOOLEAN]

\* a progress line that is no JSON
Noise == [kind |-> "noise", requests |-> 0, multiline |-> FALSE]

beginMarker == [kind |-> "ACCELBENCH_JSON_BEGIN", requests |-> 0,
                multiline |-> FALSE]

endMarker == [kind |-> "ACCELBENCH_JSON_END", requests |-> 0,
              multiline |-> FALSE]

\* what a log buffer is made of, each piece on lines of its own
Pieces == {Noise, beginMarker, endMarker} \cup Payloads

\* the most pieces a log buffer has
MaxPieces == 5

\* ParseLoadgenOutput has not been called
NoParse == [called |-> FALSE, err |-> FALSE, strategy |-> 0, out |-> <<>>]

\* what one scrape parses out of the metrics page: utilization and waiting
\* count, -1 for a series the page does not have
ScrapeValues == {[utilization |-> -1, waiting |-> -1],
                 [utilization |-> -1, waiting |-> 2],
                 [utilization |-> 1, waiting |-> 0],
                 [utilization |-> 2, waiting |-> 3]}

\* the most scrapes one loop makes
MaxScrapes == 2

\* NewGPUScraper: empty buffers, no cancel func, an open done channel
NewGPUScraper ==
    [utilizationSample |-> <<>>, waitingSamples |-> <<>>, started |-> FALSE,
     ctxDone |-> FALSE, done |-> FALSE]

\* no loop running, Stop not called
NoScraperTask ==
    [loop |-> "none", scrapes |-> 0,
     got |-> [utilization |-> -1, waiting |-> -1],
     stop |-> "idle", stopAt |-> "none", result |-> [nil |-> TRUE, peak |-> 0, sum |-> 0,
                                 n |-> 0, maxWaiting |-> 0]]

\* the create-run handler has answered nothing yet
NoResponse == [code |-> 0, id |-> "none", status |-> "none", inst |-> "none"]

(* ---------------------------------------------------------------------- *)
(* Initial state                                                           *)
(* ---------------------------------------------------------------------- *)

Init ==
    /\ runs = [r \in Runs |-> NoRun]
    /\ metrics = [r \in Runs |-> NoMetrics]
    /\ clock = [r \in Runs |-> 1]
    /\ cancels = {}
    /\ ctxDone = [r \in Runs |-> FALSE]
    /\ pc = [r \in Runs |-> "idle"]
    /\ polls = [r \in Runs |-> 0]
    /\ computed = [r \in Runs |-> "none"]
    /\ gpuScraper = [r \in Runs |-> FALSE]
    /\ deployments = {}
    /\ services = {}
    /\ jobs = {}
    /\ hpc = [r \in Runs |-> "idle"]
    /\ reqs = 0
    /\ resp = [r \in Runs |-> 0]
    /\ cancelOK = [r \in Runs |-> FALSE]
    /\ hrun = [r \in Runs |-> "none"]
    /\ cancelKinds = [r \in Runs |-> {}]
    /\ createResp = NoResponse
    /\ result = [r \in Runs |-> "none"]
    /\ markFailedResult = [r \in Runs |-> "none"]
    /\ cancelledInWait = [r \in Runs |-> "none"]
    /\ trace = [r \in Runs |-> <<>>]
    /\ last = NoOp
    /\ runAttrs = [r \in Runs |-> NoAttrs]
    /\ catalogResult = NoCatalogResult
    /\ models = {}
    /\ ensure = [c \in Callers |-> NoCall]
    /\ pricing = {}
    /\ upstream = [i \in DOMAIN Worklist |-> 1]
    /\ day = 1
    /\ refresher = NoRefresh
    /\ pricingOp = NoPricingOp
    /\ outRequests = <<>>
    /\ summary = NoSummary
    /\ bm = NoBenchmarkMetrics
    /\ data = <<>>
    /\ parsed = NoParse
    /\ scraper = NewGPUScraper
    /\ scraperPc = NoScraperTask
    /\ pvals = <<>>
    /\ pcts = NoPercentiles
    /\ request = NoRequest
    /\ loadgenParams = NoLoadgenParams
    /\ createdAt = [r \in Runs |-> 0]
    /\ listing = NoListing

(* ---------------------------------------------------------------------- *)
(* Orchestrator (internal/orchestrator)                                    *)
(* ---------------------------------------------------------------------- *)

\* cfg.RunID[:8]: the first eight characters of the run's UUID.  r1 and r2
\* stand for two UUIDs that agree in them.
Short(r) == IF r \in {"r1", "r2"} THEN "0a1b2c3d" ELSE r

modelName(r) == <<"bench", Short(r)>>

loadgenName(r) == <<"loadgen", Short(r)>>

\* CancelRun: look the cancel func up under the mutex and invoke it
CancelRun(r) ==
    IF r \in cancels THEN [ctxDone EXCEPT ![r] = TRUE] ELSE ctxDone

\* what a CancelRun(r) call made now meets: no entry because Execute has not
\* registered yet or has returned, an entry with a live context, or an entry
\* whose context is cancelled already
CancelKind(r) ==
    IF r \in cancels
    THEN IF ctxDone[r] THEN "repeat" ELSE "first"
    ELSE IF pc[r] = "done" THEN "returned" ELSE "unregistered"

\* models: id -> hf_id, model_family
ModelRows ==
    [m1 |-> [hf_id |-> "meta-llama/Llama-3.1-8B", model_family |-> "llama"],
     m3 |-> [hf_id |-> "mistralai/Mistral-7B", model_family |-> "mistral"]]

\* instance_types: id -> name, family, accelerator_type
InstanceTypeRows ==
    [i1 |-> [name |-> "g5.xlarge", family |-> "g5",
             accelerator_type |-> "gpu"],
     i3 |-> [name |-> "inf2.xlarge", family |-> "inf2",
             accelerator_type |-> "neuron"]]

\* GetInstanceTypeByName(name): the id of the row, "none" for nil
GetInstanceTypeByName(name) ==
    IF \E i \in DOMAIN InstanceTypeRows : InstanceTypeRows[i].name = name
    THEN CHOOSE i \in DOMAIN InstanceTypeRows :
             InstanceTypeRows[i].name = name
    ELSE "none"

\* the names in the instance_types table, and the names a create request
\* may carry
KnownInstances == {InstanceTypeRows[i].name : i \in DOMAIN InstanceTypeRows}

InstanceNames == KnownInstances \cup {"nonexistent.xlarge"}

\* what handleCreateRun leaves alone of the variables kept besides the
\* service
notRunAttrs == <<last, catalogResult, ensureVars, pricingVars, metricsVars,
                 parseVars, scraperVars,
                 percentileVars,
                 loadgenVars,
                 listVars>>

IsGpu_Always(r) == TRUE

\* strings.EqualFold(cfg.InstanceType.AcceleratorType, "gpu"); the column's
\* CHECK admits 'gpu' and 'neuron' in lower case only
IsGpu(r) ==
    /\ runAttrs[r].instance_type_id \in DOMAIN InstanceTypeRows
    /\ InstanceTypeRows[runAttrs[r].instance_type_id].accelerator_type = "gpu"

\* Execute started with the request's context instead
ExecuteCtxParent_Request == "request"

\* the context the handler starts Execute with: context.Background()
ExecuteCtxParent == "background"

\* Execute appends what it does to its trace
Log(r, events) == [trace EXCEPT ![r] = @ \o events]

\* POST /runs without the check for a missing instance type
handleCreateRun_NoInstanceCheck(r) ==
    /\ pc[r] = "idle"
    /\ \E inst \in InstanceNames,
          fault \in {"none", "body", "EnsureModel", "GetInstanceTypeByName",
                     "CreateBenchmarkRun"} :
         LET code == CASE fault = "body" -> 400
                       [] fault \in {"EnsureModel", "GetInstanceTypeByName"}
                            -> 500
                       [] fault = "CreateBenchmarkRun" -> 500
                       [] OTHER -> 202
         IN  /\ createResp' =
                   [code   |-> code,
                    id     |-> IF code = 202 THEN r ELSE "none",
                    status |-> IF code = 202 THEN "pending" ELSE "none",
                    inst   |-> IF fault = "body" THEN "none" ELSE inst]
             /\ IF code = 202
                THEN /\ runs' = CreateBenchmarkRun(runs, r, "pending")
                     /\ runAttrs' = [runAttrs EXCEPT ![r] =
                            [model_id |-> "m1",
                             instance_type_id |-> GetInstanceTypeByName(inst),
                             run_type |-> "on_demand"]]
                     /\ pc' = [pc EXCEPT ![r] = "spawned"]
                     /\ ctxDone' = [ctxDone EXCEPT
                                      ![r] = (ExecuteCtxParent = "request")]
                ELSE UNCHANGED <<runs, runAttrs, pc, ctxDone>>
    /\ UNCHANGED <<metrics, clock, cancels, polls, computed, gpuScraper,
                   clusterVars, hpc, reqs, resp, cancelOK, hrun, cancelKinds,
                   ghostVars, notRunAttrs>>

\* POST /runs: decode the body (400), EnsureModel (500 on error),
\* GetInstanceTypeByName (500 on error, 404 when nil), CreateBenchmarkRun
\* with Status "pending" (500 on error), then `go Execute` with
\* ExecuteCtxParent and 202 {id, status: "pending"}.  The request's context
\* ends when the handler returns, and whatever was derived from it with it.
handleCreateRun(r) ==
    /\ pc[r] = "idle"
    /\ \E inst \in InstanceNames,
          fault \in {"none", "body", "EnsureModel", "GetInstanceTypeByName",
                     "CreateBenchmarkRun"} :
         LET code == CASE fault = "body" -> 400
                       [] fault \in {"EnsureModel", "GetInstanceTypeByName"}
                            -> 500
                       [] inst \notin KnownInstances -> 404
                       [] fault = "CreateBenchmarkRun" -> 500
                       [] OTHER -> 202
         IN  /\ createResp' =
                   [code   |-> code,
                    id     |-> IF code = 202 THEN r ELSE "none",
                    status |-> IF code = 202 THEN "pending" ELSE "none",
                    inst   |-> IF fault = "body" THEN "none" ELSE inst]
             /\ IF code = 202
                THEN /\ runs' = CreateBenchmarkRun(runs, r, "pending")
                     /\ runAttrs' = [runAttrs EXCEPT ![r] =
                            [model_id |-> "m1",
                             instance_type_id |-> GetInstanceTypeByName(inst),
                             run_type |-> "on_demand"]]
                     /\ pc' = [pc EXCEPT ![r] = "spawned"]
                     /\ ctxDone' = [ctxDone EXCEPT
                                      ![r] = (ExecuteCtxParent = "request")]
                ELSE UNCHANGED <<runs, runAttrs, pc, ctxDone>>
    /\ UNCHANGED <<metrics, clock, cancels, polls, computed, gpuScraper,
                   clusterVars, hpc, reqs, resp, cancelOK, hrun, cancelKinds,
                   ghostVars, notRunAttrs>>

\* Execute entry: ctx, cancel := WithCancel(ctx); o.cancels[RunID] = cancel
ExecRegister(r) ==
    /\ pc[r] = "spawned"
    /\ cancels' = cancels \cup {r}
    /\ pc' = [pc EXCEPT ![r] = "markRunning"]
    /\ trace' = Log(r, <<"register">>)
    /\ UNCHANGED <<repoVars, ctxDone, polls, computed, gpuScraper,
                   clusterVars, handlerVars, result, markFailedResult,
                   cancelledInWait, auxVars>>

\* Mark Running with the teardown defer registered before it
ExecMarkRunning_DeferFirst(r) ==
    /\ pc[r] = "markRunning"
    /\ \E dbErr \in BOOLEAN :
         IF ctxDone[r] \/ dbErr
         THEN /\ pc' = [pc EXCEPT ![r] = "teardown"]
              /\ result' = [result EXCEPT ![r] = "err"]
              /\ trace' = Log(r, <<"markRunning.err">>)
              /\ UNCHANGED <<runs, clock>>
         ELSE /\ runs' = UpdateRunStatus(runs, r, "running", clock[r])
              /\ clock' = [clock EXCEPT ![r] = @ + 1]
              /\ pc' = [pc EXCEPT ![r] = "deployModel"]
              /\ trace' = Log(r, <<"markRunning">>)
              /\ UNCHANGED result
    /\ UNCHANGED <<metrics, cancels, ctxDone, polls, computed, gpuScraper,
                   clusterVars, handlerVars, markFailedResult,
                   cancelledInWait, auxVars>>

\* Phase 1: UpdateRunStatus(ctx, id, "running"); on error return at once
\* (the teardown defer is not registered yet, markFailed is not called)
ExecMarkRunning(r) ==
    /\ pc[r] = "markRunning"
    /\ \E dbErr \in BOOLEAN :
         IF ctxDone[r] \/ dbErr
         THEN /\ pc' = [pc EXCEPT ![r] = "unregister"]
              /\ result' = [result EXCEPT ![r] = "err"]
              /\ trace' = Log(r, <<"markRunning.err">>)
              /\ UNCHANGED <<runs, clock>>
         ELSE /\ runs' = UpdateRunStatus(runs, r, "running", clock[r])
              /\ clock' = [clock EXCEPT ![r] = @ + 1]
              /\ pc' = [pc EXCEPT ![r] = "deployModel"]
              /\ trace' = Log(r, <<"markRunning">>)
              /\ UNCHANGED result
    /\ UNCHANGED <<metrics, cancels, ctxDone, polls, computed, gpuScraper,
                   clusterVars, handlerVars, markFailedResult,
                   cancelledInWait, auxVars>>

\* deployModel whose error is not checked: the readiness wait starts anyway
ExecDeployModel_IgnoreErr(r) ==
    /\ pc[r] = "deployModel"
    /\ \E e1 \in BOOLEAN, e2 \in BOOLEAN :
         LET depFails == ctxDone[r] \/ e1 \/ modelName(r) \in deployments
             svcFails == e2 \/ modelName(r) \in services
             depExists == ~ctxDone[r] /\ ~e1 /\ modelName(r) \in deployments
             svcExists == ~depFails /\ ~e2 /\ modelName(r) \in services
         IN  /\ deployments' = IF depFails THEN deployments
                               ELSE deployments \cup {modelName(r)}
             /\ services' = IF depFails \/ svcFails THEN services
                            ELSE services \cup {modelName(r)}
             /\ pc' = [pc EXCEPT ![r] = "waitForReady"]
             /\ trace' = Log(r,
                    <<"createDeployment">>
                    \o (IF depFails THEN <<>> ELSE <<"createService">>)
                    \o (IF depExists \/ svcExists THEN <<"alreadyExists">>
                        ELSE <<>>)
                    \o (IF depFails \/ svcFails THEN <<"deployModel.err">>
                        ELSE <<"deployModel">>))
    /\ polls' = [polls EXCEPT ![r] = 0]
    /\ UNCHANGED <<repoVars, cancels, ctxDone, computed, gpuScraper, jobs,
                   handlerVars, result, markFailedResult, cancelledInWait,
                   auxVars>>

\* Phase 2: deployModel -> applyYAML creates the Deployment, then the
\* Service.  A create fails on a cancelled context, on a cluster error, or
\* when an object of that name exists; the first failure stops applyYAML.
\* A create that reached the cluster and found the name taken is logged as
\* alreadyExists.
ExecDeployModel(r) ==
    /\ pc[r] = "deployModel"
    /\ \E e1 \in BOOLEAN, e2 \in BOOLEAN :
         LET depFails == ctxDone[r] \/ e1 \/ modelName(r) \in deployments
             svcFails == e2 \/ modelName(r) \in services
             depExists == ~ctxDone[r] /\ ~e1 /\ modelName(r) \in deployments
             svcExists == ~depFails /\ ~e2 /\ modelName(r) \in services
         IN  /\ deployments' = IF depFails THEN deployments
                               ELSE deployments \cup {modelName(r)}
             /\ services' = IF depFails \/ svcFails THEN services
                            ELSE services \cup {modelName(r)}
             /\ pc' = [pc EXCEPT ![r] = IF depFails \/ svcFails
                                        THEN "markFailed" ELSE "waitForReady"]
             /\ trace' = Log(r,
                    <<"createDeployment">>
                    \o (IF depFails THEN <<>> ELSE <<"createService">>)
                    \o (IF depExists \/ svcExists THEN <<"alreadyExists">>
                        ELSE <<>>)
                    \o (IF depFails \/ svcFails THEN <<"deployModel.err">>
                        ELSE <<"deployModel">>))
    /\ polls' = [polls EXCEPT ![r] = 0]
    /\ UNCHANGED <<repoVars, cancels, ctxDone, computed, gpuScraper, jobs,
                   handlerVars, result, markFailedResult, cancelledInWait,
                   auxVars>>

\* Phase 3: waitForReady.  While the deadline has not passed: Get the
\* Deployment (error -> return it), ReadyReplicas >= 1 -> nil, otherwise
\* select on ctx.Done() and the poll timer.  A cancelled context makes the
\* Get or the select return the cancellation error at once.  Once ready, a
\* run on a GPU instance type (gpu) gets the scraper started.
ExecWaitForReady(r) ==
    /\ pc[r] = "waitForReady"
    /\ LET started == IF polls[r] = 0 THEN <<"waitForReady">> ELSE <<>>
       IN  IF polls[r] >= MaxReadyPolls
           THEN /\ pc' = [pc EXCEPT ![r] = "markFailed"]
                /\ trace' = Log(r, started \o <<"waitForReady.err">>)
                /\ UNCHANGED <<polls, cancelledInWait, gpuScraper>>
           ELSE IF ctxDone[r]
           THEN /\ pc' = [pc EXCEPT ![r] = "markFailed"]
                /\ cancelledInWait' = [cancelledInWait EXCEPT ![r] = "ready"]
                /\ trace' = Log(r, started \o <<"waitForReady.err">>)
                /\ UNCHANGED <<polls, gpuScraper>>
           ELSE \E obs \in {"ready", "notReady", "getErr"}, gpu \in {IsGpu(r)} :
                  /\ pc' = [pc EXCEPT ![r] =
                              CASE obs = "ready"    -> "launchLoadgen"
                                [] obs = "notReady" -> "waitForReady"
                                [] obs = "getErr"   -> "markFailed"]
                  /\ polls' = [polls EXCEPT ![r] =
                                 IF obs = "notReady" THEN @ + 1 ELSE @]
                  /\ gpuScraper' = [gpuScraper EXCEPT
                                      ![r] = (obs = "ready" /\ gpu)]
                  /\ trace' = Log(r, started \o
                         (CASE obs = "ready" ->
                                 <<"ready">> \o (IF gpu THEN <<"scraperStart">>
                                                 ELSE <<>>)
                            [] obs = "notReady" -> <<>>
                            [] obs = "getErr" -> <<"waitForReady.err">>))
                  /\ UNCHANGED cancelledInWait
    /\ UNCHANGED <<repoVars, cancels, ctxDone, computed, clusterVars,
                   handlerVars, result, markFailedResult, auxVars>>

\* the scraper's Stop, when a scraper was started
scraperStop(r) == IF gpuScraper[r] THEN <<"scraperStop">> ELSE <<>>

\* Phase 4: launchLoadgen -> applyYAML creates the Job; on error the scraper
\* is stopped before markFailed
ExecLaunchLoadgen(r) ==
    /\ pc[r] = "launchLoadgen"
    /\ \E e \in BOOLEAN :
         LET jobFails == ctxDone[r] \/ e \/ loadgenName(r) \in jobs
             jobExists == ~ctxDone[r] /\ ~e /\ loadgenName(r) \in jobs
         IN  /\ jobs' = IF jobFails THEN jobs ELSE jobs \cup {loadgenName(r)}
             /\ pc' = [pc EXCEPT ![r] = IF jobFails THEN "markFailed"
                                        ELSE "waitAndCollect"]
             /\ trace' = Log(r,
                    <<"createJob">>
                    \o (IF jobExists THEN <<"alreadyExists">> ELSE <<>>)
                    \o (IF jobFails
                        THEN <<"launchLoadgen.err">> \o scraperStop(r)
                        ELSE <<"launchLoadgen">>))
    /\ polls' = [polls EXCEPT ![r] = 0]
    /\ UNCHANGED <<repoVars, cancels, ctxDone, computed, gpuScraper,
                   deployments, services, handlerVars, result,
                   markFailedResult, cancelledInWait, auxVars>>

\* Phase 5: waitAndCollect.  While the deadline has not passed: Get the Job
\* (error -> return it), Complete=True -> readJobLogs, Failed=True -> error,
\* otherwise select on ctx.Done() and the poll timer.  When it returns an
\* error the scraper is stopped, then markFailed.
ExecWaitAndCollect(r) ==
    /\ pc[r] = "waitAndCollect"
    /\ LET started == IF polls[r] = 0 THEN <<"waitAndCollect">> ELSE <<>>
           failed  == <<"waitAndCollect.err">> \o scraperStop(r)
       IN  IF polls[r] >= MaxJobPolls
           THEN /\ pc' = [pc EXCEPT ![r] = "markFailed"]
                /\ trace' = Log(r, started \o failed)
                /\ UNCHANGED <<polls, cancelledInWait>>
           ELSE IF ctxDone[r]
           THEN /\ pc' = [pc EXCEPT ![r] = "markFailed"]
                /\ cancelledInWait' = [cancelledInWait EXCEPT ![r] = "job"]
                /\ trace' = Log(r, started \o failed)
                /\ UNCHANGED polls
           ELSE \E obs \in {"complete", "failed", "running", "getErr"} :
                  /\ pc' = [pc EXCEPT ![r] =
                              CASE obs = "complete" -> "readJobLogs"
                                [] obs = "running"  -> "waitAndCollect"
                                [] OTHER            -> "markFailed"]
                  /\ polls' = [polls EXCEPT ![r] =
                                 IF obs = "running" THEN @ + 1 ELSE @]
                  /\ trace' = Log(r, started \o
                         (CASE obs = "complete" -> <<"complete">>
                            [] obs = "running"  -> <<>>
                            [] obs = "failed"   -> <<"jobFailed">> \o failed
                            [] OTHER            -> failed))
                  /\ UNCHANGED cancelledInWait
    /\ UNCHANGED <<repoVars, cancels, ctxDone, computed, gpuScraper,
                   clusterVars, handlerVars, result, markFailedResult, auxVars>>

\* readJobLogs (list the job's pods, stream the first pod's log) ends
\* waitAndCollect; the scraper is stopped; then ParseLoadgenOutput and
\* ComputeMetrics.  Listing or streaming fails on a cancelled context or a
\* cluster error; the log either holds no valid payload (parse error) or
\* yields a metrics value.
ExecReadJobLogs(r) ==
    /\ pc[r] = "readJobLogs"
    /\ \E out \in {"readErr", "parseErr"} \cup MetricVals :
         LET readFails == ctxDone[r] \/ out = "readErr"
         IN  /\ IF readFails \/ out = "parseErr"
                THEN /\ pc' = [pc EXCEPT ![r] = "markFailed"]
                     /\ UNCHANGED computed
                ELSE /\ pc' = [pc EXCEPT ![r] = "persistMetrics"]
                     /\ computed' = [computed EXCEPT ![r] = out]
             /\ trace' = Log(r,
                    IF readFails
                    THEN <<"readJobLogs.err", "waitAndCollect.err">>
                         \o scraperStop(r)
                    ELSE <<"readJobLogs">> \o scraperStop(r)
                         \o (IF out = "parseErr" THEN <<"parse.err">>
                             ELSE <<"parse", "compute">>))
    /\ UNCHANGED <<repoVars, cancels, ctxDone, polls, gpuScraper,
                   clusterVars, handlerVars, result, markFailedResult,
                   cancelledInWait, auxVars>>

\* Phase 6: repo.PersistMetrics(ctx, id, computed); on error markFailed
ExecPersistMetrics(r) ==
    /\ pc[r] = "persistMetrics"
    /\ \E dbErr \in BOOLEAN :
         LET res == PersistMetrics(runs, metrics, r, computed[r], clock[r],
                                   ctxDone[r] \/ dbErr)
         IN  /\ runs' = res.runs
             /\ metrics' = res.metrics
             /\ clock' = IF res.err THEN clock
                         ELSE [clock EXCEPT ![r] = @ + 1]
             /\ pc' = [pc EXCEPT ![r] = IF res.err THEN "markFailed"
                                        ELSE "markCompleted"]
             /\ trace' = Log(r, IF res.err THEN <<"persistMetrics.err">>
                                ELSE <<"persistMetrics">>)
    /\ UNCHANGED <<cancels, ctxDone, polls, computed, gpuScraper,
                   clusterVars, handlerVars, result, markFailedResult,
                   cancelledInWait, auxVars>>

\* repo.UpdateRunStatus(ctx, id, "completed"); Execute returns its error
\* or nil
ExecMarkCompleted(r) ==
    /\ pc[r] = "markCompleted"
    /\ \E dbErr \in BOOLEAN :
         IF ctxDone[r] \/ dbErr
         THEN /\ result' = [result EXCEPT ![r] = "err"]
              /\ trace' = Log(r, <<"markCompleted.err">>)
              /\ UNCHANGED <<runs, clock>>
         ELSE /\ runs' = UpdateRunStatus(runs, r, "completed", clock[r])
              /\ clock' = [clock EXCEPT ![r] = @ + 1]
              /\ result' = [result EXCEPT ![r] = "ok"]
              /\ trace' = Log(r, <<"markCompleted">>)
    /\ pc' = [pc EXCEPT ![r] = "teardown"]
    /\ UNCHANGED <<metrics, cancels, ctxDone, polls, computed, gpuScraper,
                   clusterVars, handlerVars, markFailedResult,
                   cancelledInWait, auxVars>>

\* markFailed(ctx, id): UpdateRunStatus(ctx, id, "failed") with Execute's
\* own context; an error is only logged.  Execute then returns the phase's
\* error.
markFailed(r) ==
    /\ pc[r] = "markFailed"
    /\ \E dbErr \in BOOLEAN :
         IF ctxDone[r] \/ dbErr
         THEN /\ markFailedResult' = [markFailedResult EXCEPT ![r] =
                                        IF ctxDone[r] THEN "ctxErr"
                                        ELSE "dbErr"]
              /\ UNCHANGED <<runs, clock>>
         ELSE /\ runs' = UpdateRunStatus(runs, r, "failed", clock[r])
              /\ clock' = [clock EXCEPT ![r] = @ + 1]
              /\ markFailedResult' = [markFailedResult EXCEPT ![r] = "ok"]
    /\ result' = [result EXCEPT ![r] = "err"]
    /\ pc' = [pc EXCEPT ![r] = "teardown"]
    /\ trace' = Log(r, <<"markFailed">>)
    /\ UNCHANGED <<metrics, cancels, ctxDone, polls, computed, gpuScraper,
                   clusterVars, handlerVars, cancelledInWait, auxVars>>

\* teardown issued with Execute's own (possibly cancelled) context
teardown_RunCtx(r) ==
    /\ pc[r] = "teardown"
    /\ jobs' = IF ctxDone[r] THEN jobs ELSE jobs \ {loadgenName(r)}
    /\ services' = IF ctxDone[r] THEN services ELSE services \ {modelName(r)}
    /\ deployments' = IF ctxDone[r] THEN deployments
                      ELSE deployments \ {modelName(r)}
    /\ pc' = [pc EXCEPT ![r] = "unregister"]
    /\ trace' = Log(r, <<"deleteJob", "deleteService", "deleteDeployment">>)
    /\ UNCHANGED <<repoVars, cancels, ctxDone, polls, computed, gpuScraper,
                   handlerVars, result, markFailedResult, cancelledInWait,
                   auxVars>>

\* deferred teardown(context.Background(), ...): delete the Job, the
\* Service and the Deployment; errors (not found) are ignored.  The cluster
\* accepts the deletes.
teardown(r) ==
    /\ pc[r] = "teardown"
    /\ jobs' = jobs \ {loadgenName(r)}
    /\ services' = services \ {modelName(r)}
    /\ deployments' = deployments \ {modelName(r)}
    /\ pc' = [pc EXCEPT ![r] = "unregister"]
    /\ trace' = Log(r, <<"deleteJob", "deleteService", "deleteDeployment">>)
    /\ UNCHANGED <<repoVars, cancels, ctxDone, polls, computed, gpuScraper,
                   handlerVars, result, markFailedResult, cancelledInWait,
                   auxVars>>

\* the defers without delete(o.cancels, RunID)
ExecUnregister_Leak(r) ==
    /\ pc[r] = "unregister"
    /\ ctxDone' = [ctxDone EXCEPT ![r] = TRUE]
    /\ pc' = [pc EXCEPT ![r] = "done"]
    /\ UNCHANGED <<repoVars, cancels, polls, computed, gpuScraper,
                   clusterVars, handlerVars, ghostVars, auxVars>>

\* the remaining defers: delete(o.cancels, RunID) under the mutex, then
\* cancel(); Execute has returned
ExecUnregister(r) ==
    /\ pc[r] = "unregister"
    /\ cancels' = cancels \ {r}
    /\ ctxDone' = [ctxDone EXCEPT ![r] = TRUE]
    /\ pc' = [pc EXCEPT ![r] = "done"]
    /\ UNCHANGED <<repoVars, polls, computed, gpuScraper, clusterVars,
                   handlerVars, ghostVars, auxVars>>

\* one step of the Execute goroutine of run r
Execute(r) ==
    \/ ExecRegister(r)
    \/ ExecMarkRunning(r)
    \/ ExecDeployModel(r)
    \/ ExecWaitForReady(r)
    \/ ExecLaunchLoadgen(r)
    \/ ExecWaitAndCollect(r)
    \/ ExecReadJobLogs(r)
    \/ ExecPersistMetrics(r)
    \/ ExecMarkCompleted(r)
    \/ markFailed(r)
    \/ teardown(r)
    \/ ExecUnregister(r)

(* ---------------------------------------------------------------------- *)
(* API handlers (internal/api)                                             *)
(* ---------------------------------------------------------------------- *)

Active == {"pending", "running"}

\* the cancel handler without the status check
handleCancelRun_Get_NoStatusCheck(r) ==
    /\ hpc[r] = "idle"
    /\ reqs < MaxRequests
    /\ reqs' = reqs + 1
    /\ \E dbErr \in BOOLEAN :
         LET run == GetBenchmarkRun(r)
         IN  CASE dbErr ->
                    /\ resp' = [resp EXCEPT ![r] = 500]
                    /\ UNCHANGED <<hpc, hrun>>
               [] ~dbErr /\ run = NoRun ->
                    /\ resp' = [resp EXCEPT ![r] = 404]
                    /\ UNCHANGED <<hpc, hrun>>
               [] OTHER ->
                    /\ hpc' = [hpc EXCEPT ![r] = "cancel.CancelRun"]
                    /\ hrun' = [hrun EXCEPT ![r] = run.status]
                    /\ UNCHANGED resp
    /\ UNCHANGED <<repoVars, cancels, ctxDone, pc, polls, computed,
                   gpuScraper, clusterVars, cancelOK, cancelKinds,
                   createResp, ghostVars, auxVars>>

\* POST /runs/{id}/cancel, first part: GetBenchmarkRun; 500 on a query
\* error, 404 when absent, 409 when the status is not pending or running
handleCancelRun_Get(r) ==
    /\ hpc[r] = "idle"
    /\ reqs < MaxRequests
    /\ reqs' = reqs + 1
    /\ \E dbErr \in BOOLEAN :
         LET run == GetBenchmarkRun(r)
         IN  CASE dbErr ->
                    /\ resp' = [resp EXCEPT ![r] = 500]
                    /\ UNCHANGED <<hpc, hrun>>
               [] ~dbErr /\ run = NoRun ->
                    /\ resp' = [resp EXCEPT ![r] = 404]
                    /\ UNCHANGED <<hpc, hrun>>
               [] ~dbErr /\ run # NoRun /\ run.status \notin Active ->
                    /\ resp' = [resp EXCEPT ![r] = 409]
                    /\ hrun' = [hrun EXCEPT ![r] = run.status]
                    /\ UNCHANGED hpc
               [] OTHER ->
                    /\ hpc' = [hpc EXCEPT ![r] = "cancel.CancelRun"]
                    /\ hrun' = [hrun EXCEPT ![r] = run.status]
                    /\ UNCHANGED resp
    /\ UNCHANGED <<repoVars, cancels, ctxDone, pc, polls, computed,
                   gpuScraper, clusterVars, cancelOK, cancelKinds,
                   createResp, ghostVars, auxVars>>

\* a CancelRun that also writes the failed status itself
handleCancelRun_CancelRun_MarksFailed(r) ==
    /\ hpc[r] = "cancel.CancelRun"
    /\ ctxDone' = CancelRun(r)
    /\ cancelKinds' = [cancelKinds EXCEPT ![r] = @ \cup {CancelKind(r)}]
    /\ runs' = UpdateRunStatus(runs, r, "failed", clock[r])
    /\ clock' = [clock EXCEPT ![r] = @ + 1]
    /\ hpc' = [hpc EXCEPT ![r] = "cancel.Update"]
    /\ UNCHANGED <<metrics, cancels, pc, polls, computed, gpuScraper,
                   clusterVars, reqs, resp, cancelOK, hrun, createResp,
                   ghostVars, auxVars>>

\* s.orch.CancelRun(runID)
handleCancelRun_CancelRun(r) ==
    /\ hpc[r] = "cancel.CancelRun"
    /\ ctxDone' = CancelRun(r)
    /\ cancelKinds' = [cancelKinds EXCEPT ![r] = @ \cup {CancelKind(r)}]
    /\ hpc' = [hpc EXCEPT ![r] = "cancel.Update"]
    /\ UNCHANGED <<repoVars, cancels, pc, polls, computed, gpuScraper,
                   clusterVars, reqs, resp, cancelOK, hrun, createResp,
                   ghostVars, auxVars>>

\* UpdateRunStatus(ctx, runID, "failed") with the request context: 500 on
\* error, otherwise 200 {"status": "failed"}
handleCancelRun_Update(r) ==
    /\ hpc[r] = "cancel.Update"
    /\ \E dbErr \in BOOLEAN :
         IF dbErr
         THEN /\ resp' = [resp EXCEPT ![r] = 500]
              /\ UNCHANGED <<runs, clock, cancelOK>>
         ELSE /\ runs' = UpdateRunStatus(runs, r, "failed", clock[r])
              /\ clock' = [clock EXCEPT ![r] = @ + 1]
              /\ resp' = [resp EXCEPT ![r] = 200]
              /\ cancelOK' = [cancelOK EXCEPT ![r] = TRUE]
    /\ hpc' = [hpc EXCEPT ![r] = "idle"]
    /\ UNCHANGED <<metrics, cancels, ctxDone, pc, polls, computed,
                   gpuScraper, clusterVars, reqs, handlerAux, ghostVars,
                   auxVars>>

handleCancelRun(r) ==
    \/ handleCancelRun_Get(r)
    \/ handleCancelRun_CancelRun(r)
    \/ handleCancelRun_Update(r)

\* DELETE /runs/{id}, first part: GetBenchmarkRun; 500 on a query error,
\* 404 when absent; an active run is cancelled and marked failed first
handleDeleteRun_Get(r) ==
    /\ hpc[r] = "idle"
    /\ reqs < MaxRequests
    /\ reqs' = reqs + 1
    /\ \E dbErr \in BOOLEAN :
         LET run == GetBenchmarkRun(r)
         IN  CASE dbErr ->
                    /\ resp' = [resp EXCEPT ![r] = 500]
                    /\ UNCHANGED <<hpc, hrun>>
               [] ~dbErr /\ run = NoRun ->
                    /\ resp' = [resp EXCEPT ![r] = 404]
                    /\ UNCHANGED <<hpc, hrun>>
               [] ~dbErr /\ run # NoRun /\ run.status \in Active ->
                    /\ hpc' = [hpc EXCEPT ![r] = "delete.CancelRun"]
                    /\ hrun' = [hrun EXCEPT ![r] = run.status]
                    /\ UNCHANGED resp
               [] OTHER ->
                    /\ hpc' = [hpc EXCEPT ![r] = "delete.DeleteRun"]
                    /\ hrun' = [hrun EXCEPT ![r] = run.status]
                    /\ UNCHANGED resp
    /\ UNCHANGED <<repoVars, cancels, ctxDone, pc, polls, computed,
                   gpuScraper, clusterVars, cancelOK, cancelKinds,
                   createResp, ghostVars, auxVars>>

\* s.orch.CancelRun(runID)
handleDeleteRun_CancelRun(r) ==
    /\ hpc[r] = "delete.CancelRun"
    /\ ctxDone' = CancelRun(r)
    /\ cancelKinds' = [cancelKinds EXCEPT ![r] = @ \cup {CancelKind(r)}]
    /\ hpc' = [hpc EXCEPT ![r] = "delete.Update"]
    /\ UNCHANGED <<repoVars, cancels, pc, polls, computed, gpuScraper,
                   clusterVars, reqs, resp, cancelOK, hrun, createResp,
                   ghostVars, auxVars>>

\* _ = UpdateRunStatus(ctx, runID, "failed"): the error is dropped
handleDeleteRun_Update(r) ==
    /\ hpc[r] = "delete.Update"
    /\ \E dbErr \in BOOLEAN :
         IF dbErr
         THEN UNCHANGED <<runs, clock>>
         ELSE /\ runs' = UpdateRunStatus(runs, r, "failed", clock[r])
              /\ clock' = [clock EXCEPT ![r] = @ + 1]
    /\ hpc' = [hpc EXCEPT ![r] = "delete.DeleteRun"]
    /\ UNCHANGED <<metrics, cancels, ctxDone, pc, polls, computed,
                   gpuScraper, clusterVars, reqs, resp, cancelOK,
                   handlerAux, ghostVars, auxVars>>

\* DeleteRun(ctx, runID): 500 on error, otherwise 204
handleDeleteRun_Delete(r) ==
    /\ hpc[r] = "delete.DeleteRun"
    /\ \E dbErr \in BOOLEAN :
         LET res == DeleteRun(runs, metrics, r, dbErr)
         IN  /\ runs' = res.runs
             /\ metrics' = res.metrics
             /\ resp' = [resp EXCEPT ![r] = IF res.err THEN 500 ELSE 204]
    /\ hpc' = [hpc EXCEPT ![r] = "idle"]
    /\ UNCHANGED <<clock, cancels, ctxDone, pc, polls, computed,
                   gpuScraper, clusterVars, reqs, cancelOK, handlerAux,
                   ghostVars, auxVars>>

handleDeleteRun(r) ==
    \/ handleDeleteRun_Get(r)
    \/ handleDeleteRun_CancelRun(r)
    \/ handleDeleteRun_Update(r)
    \/ handleDeleteRun_Delete(r)

(* ---------------------------------------------------------------------- *)
(* The service: clients create, cancel and delete runs; every created run  *)
(* has one Execute goroutine                                               *)
(* ---------------------------------------------------------------------- *)

Next ==
    \E r \in SpecRuns :
        \/ handleCreateRun(r)
        \/ Execute(r)
        \/ handleCancelRun(r)
        \/ handleDeleteRun(r)

Spec == Init /\ [][Next]_vars

\* a handler that has started runs to its answer
HandlerStep(r) ==
    \/ handleCancelRun_CancelRun(r)
    \/ handleCancelRun_Update(r)
    \/ handleDeleteRun_CancelRun(r)
    \/ handleDeleteRun_Update(r)
    \/ handleDeleteRun_Delete(r)

\* Scheduling: a goroutine that can take a step eventually takes it (every
\* repository and cluster call returns, every wait observes an outcome); a
\* request being served is served to its end.  Nothing forces a client to
\* send a request.
FairSpec ==
    /\ Init
    /\ [][Next]_vars
    /\ \A r \in SpecRuns : WF_vars(Execute(r))
    /\ \A r \in SpecRuns : WF_vars(HandlerStep(r))

(* ---------------------------------------------------------------------- *)
(* Two runs executing in parallel                                          *)
(* ---------------------------------------------------------------------- *)

PairNext ==
    \E r \in Runs :
        \/ handleCreateRun(r)
        \/ Execute(r)

PairSpec == Init /\ [][PairNext]_vars

\* two runs in parallel; a client asks to cancel the first once one of its
\* creates has found the name taken
CollisionNext ==
    \/ PairNext
    \/ \E r \in SpecRuns :
         /\ \E i \in DOMAIN trace[r] : trace[r][i] = "alreadyExists"
         /\ handleCancelRun(r)

CollisionSpec == Init /\ [][CollisionNext]_vars

(* ---------------------------------------------------------------------- *)
(* The repository on its own: callers apply its operations in any order    *)
(* ---------------------------------------------------------------------- *)

orchVars == <<cancels, ctxDone, polls, computed, gpuScraper, clusterVars,
              hpc, resp, cancelOK, handlerAux, ghostVars>>

\* CreateBenchmarkRun(run) with whatever status the caller put in the record;
\* the database assigns an id no run had before
RepoCreateBenchmarkRun(r) ==
    /\ reqs < MaxRepoOps
    /\ pc[r] = "idle"
    /\ \E st \in Statuses, dbErr \in BOOLEAN :
         /\ runs' = IF dbErr THEN runs ELSE CreateBenchmarkRun(runs, r, st)
         /\ pc' = IF dbErr THEN pc ELSE [pc EXCEPT ![r] = "created"]
         /\ last' = [op |-> "CreateBenchmarkRun", run |-> r,
                     had |-> metrics[r] # NoMetrics, dbErr |-> dbErr,
                     err |-> dbErr]
    /\ reqs' = reqs + 1
    /\ UNCHANGED <<metrics, clock, orchVars, notRepoVars>>

\* UpdateRunStatus(id, status)
RepoUpdateRunStatus(r) ==
    /\ reqs < MaxRepoOps
    /\ \E st \in Statuses, dbErr \in BOOLEAN :
         /\ runs' = IF dbErr THEN runs
                    ELSE UpdateRunStatus(runs, r, st, clock[r])
         /\ clock' = IF dbErr THEN clock ELSE [clock EXCEPT ![r] = @ + 1]
         /\ last' = [op |-> "UpdateRunStatus", run |-> r,
                     had |-> metrics[r] # NoMetrics, dbErr |-> dbErr,
                     err |-> dbErr]
    /\ reqs' = reqs + 1
    /\ UNCHANGED <<metrics, pc, orchVars, notRepoVars>>

\* PersistMetrics(id, m)
RepoPersistMetrics(r) ==
    /\ reqs < MaxRepoOps
    /\ \E m \in MetricVals, dbErr \in BOOLEAN :
         LET res == PersistMetrics(runs, metrics, r, m, clock[r], dbErr)
         IN  /\ runs' = res.runs
             /\ metrics' = res.metrics
             /\ clock' = IF res.err THEN clock
                         ELSE [clock EXCEPT ![r] = @ + 1]
             /\ last' = [op |-> "PersistMetrics", run |-> r,
                         had |-> metrics[r] # NoMetrics, dbErr |-> dbErr,
                         err |-> res.err]
    /\ reqs' = reqs + 1
    /\ UNCHANGED <<pc, orchVars, notRepoVars>>

\* DeleteRun(id)
RepoDeleteRun(r) ==
    /\ reqs < MaxRepoOps
    /\ \E dbErr \in BOOLEAN :
         LET res == DeleteRun(runs, metrics, r, dbErr)
         IN  /\ runs' = res.runs
             /\ metrics' = res.metrics
             /\ last' = [op |-> "DeleteRun", run |-> r,
                         had |-> metrics[r] # NoMetrics, dbErr |-> dbErr,
                         err |-> res.err]
    /\ reqs' = reqs + 1
    /\ UNCHANGED <<clock, pc, orchVars, notRepoVars>>

RepoNext ==
    \E r \in Runs :
        \/ RepoCreateBenchmarkRun(r)
        \/ RepoUpdateRunStatus(r)
        \/ RepoPersistMetrics(r)
        \/ RepoDeleteRun(r)

RepoSpec == Init /\ [][RepoNext]_vars

(* ---------------------------------------------------------------------- *)
(* Properties                                                              *)
(* ---------------------------------------------------------------------- *)

\* position of a status on pending -> running -> {completed, failed}
Rank(status) ==
    CASE status = "pending" -> 0
      [] status = "running" -> 1
      [] OTHER              -> 2

Exists(r) == runs[r] # NoRun

NoResources(r) ==
    /\ modelName(r) \notin deployments
    /\ modelName(r) \notin services
    /\ loadgenName(r) \notin jobs

\* C1: whenever Execute has returned for a run (normally, on any phase
\* error including a failed Mark Running update, or after cancellation),
\* the run's stored status is completed or failed, never pending or running.
C1_ExecuteEndsTerminal ==
    \A r \in Runs :
        pc[r] = "done" /\ Exists(r) => runs[r].status \in Terminal

\* C2: the stored status of a run only moves forward along
\* pending -> running -> {completed, failed}: no step takes it back from a
\* terminal status to running, or from one terminal status to the other.
C2_StatusMonotone ==
    [][\A r \in Runs :
          Exists(r) /\ runs'[r] # NoRun =>
              /\ Rank(runs[r].status) <= Rank(runs'[r].status)
              /\ (runs[r].status \in Terminal =>
                      runs'[r].status = runs[r].status)]_vars

\* C3: in every reachable state a run whose status is completed has a
\* metrics row whose run_id is the run's id.
C3_CompletedHasMetrics ==
    \A r \in Runs :
        Exists(r) /\ runs[r].status = "completed" =>
            metrics[r] # NoMetrics /\ metrics[r].run_id = r

C3_Witness ==
    \E r \in Runs :
        /\ runs[r].status = "completed"
        /\ metrics[r].run_id = r
        /\ pc[r] = "done"

\* C4: after Execute has returned for any reason (success, an error in any
\* phase, cancellation in any phase) none of the deployment, service or job
\* it created is left in the cluster; the deletions do not depend on the
\* run's context, so a cancelled run is torn down as well.
C4_TeardownTotal ==
    \A r \in Runs : pc[r] = "done" => NoResources(r)

\* Execute was cancelled in the job wait, when the deployment, the service
\* and the job all existed, and has returned
C4_Witness ==
    \E r \in Runs :
        pc[r] = "done" /\ cancelledInWait[r] = "job" /\ result[r] = "err"

\* C5: once the cancel handler has answered 200 for a run, the run's status
\* is failed and stays failed (until the run is deleted), and no deployment,
\* service or job is created for that run afterwards.
C5_CancelSticks ==
    [][\A r \in Runs :
          cancelOK[r] =>
              /\ runs'[r] = NoRun \/ runs'[r].status = "failed"
              /\ modelName(r) \in deployments' => modelName(r) \in deployments
              /\ modelName(r) \in services' => modelName(r) \in services
              /\ loadgenName(r) \in jobs' => loadgenName(r) \in jobs]_vars

\* C6: when the readiness wait or the job wait returned the cancellation
\* error, Execute returns an error and the write of failed that Execute
\* issues through markFailed takes effect.
C6_CancelledWaitMarksFailed ==
    \A r \in Runs :
        cancelledInWait[r] # "none" /\ markFailedResult[r] # "none" =>
            markFailedResult[r] = "ok" /\ result[r] = "err"

\* C7: under fair scheduling every created run eventually has status
\* completed or failed (or is deleted), and a run cancelled during the
\* readiness wait eventually has status failed with its resources deleted.
C7_EventuallyTerminal ==
    /\ \A r \in Runs :
          Exists(r) ~> (~Exists(r) \/ runs[r].status \in Terminal)
    /\ \A r \in Runs :
          (cancelledInWait[r] = "ready") ~>
              (~Exists(r) \/ (runs[r].status = "failed" /\ NoResources(r)))

\* C8: the PersistMetrics commit is the linearization point of completion:
\* a run without a committed metrics row is never seen as completed, and a
\* run with a committed metrics row that is neither superseded nor deleted
\* is in the unfiltered catalog listing.
C8_PersistLinearizes ==
    \A r \in Runs :
        Exists(r) =>
            /\ metrics[r] = NoMetrics =>
                   /\ GetBenchmarkRun(r).status # "completed"
                   /\ r \notin ListRuns("completed")
                   /\ r \notin ListCatalog
            /\ metrics[r] # NoMetrics /\ ~runs[r].superseded =>
                   r \in ListCatalog

\* C9: PersistMetrics is atomic: no reachable state has a metrics row for a
\* run that is pending or running, and a PersistMetrics call that returns an
\* error has added no metrics row and has changed neither the run's status
\* nor its completed_at.
C9_PersistAtomic ==
    /\ [](\A r \in Runs :
             metrics[r] # NoMetrics => runs[r].status \notin Active)
    /\ [][\A r \in Runs :
             pc[r] = "persistMetrics" /\ pc'[r] = "markFailed" =>
                 metrics' = metrics /\ runs' = runs]_vars

\* Execute's PersistMetrics call has returned an error
C9_Witness ==
    \E r \in Runs :
        pc[r] = "markFailed" /\ computed[r] # "none" /\ Exists(r)

Did(r, e) == \E i \in DOMAIN trace[r] : trace[r][i] = e

\* every b in r's trace has an a before it
Precedes(r, a, b) ==
    \A j \in DOMAIN trace[r] :
        trace[r][j] = b => \E i \in 1..(j - 1) : trace[r][i] = a

\* the step is a handler's call of CancelRun(r)
CancelRunStep(r) ==
    /\ hpc[r] \in {"cancel.CancelRun", "delete.CancelRun"}
    /\ hpc'[r] # hpc[r]

\* Execute of run r is between its entry and its return
InProgress(r) == pc[r] \notin {"idle", "spawned", "created", "done"}

ClusterRequests ==
    {"createDeployment", "createService", "createJob",
     "deleteJob", "deleteService", "deleteDeployment"}

ErrEvents ==
    {"markRunning.err", "deployModel.err", "waitForReady.err",
     "launchLoadgen.err", "waitAndCollect.err", "readJobLogs.err",
     "parse.err", "persistMetrics.err", "markCompleted.err"}

\* what Execute still does after a phase has failed
AfterFailure ==
    ErrEvents \cup {"scraperStop", "markFailed", "deleteJob",
                    "deleteService", "deleteDeployment"}

\* C11: a CancelRun call touches nothing but the contexts' cancellation: no
\* status, no metrics, no cluster object, no registry entry, no other run's
\* context; a second call right after it would change nothing; and a call
\* made after Execute has returned changes nothing at all.
C11_CancelRunIdempotent ==
    [][\A r \in Runs :
          CancelRunStep(r) =>
              /\ UNCHANGED <<runs, metrics, clock, cancels, clusterVars, pc>>
              /\ \A x \in Runs \ {r} : ctxDone'[x] = ctxDone[x]
              /\ CancelRun(r)' = ctxDone'
              /\ (ctxDone[r] => ctxDone' = ctxDone)
              /\ (pc[r] = "done" => ctxDone' = ctxDone)]_vars

\* two CancelRun calls for one run: the first met the live registered
\* context, the second came after Execute had returned
C11_Witness ==
    \E r \in Runs : {"first", "returned"} \subseteq cancelKinds[r]

\* C12: the registry holds r exactly while Execute(r) is in progress; the
\* registration is the first thing Execute does; the entry is gone on every
\* return, so the registry is empty when no Execute is in progress.
C12_RegistryTracksExecute ==
    /\ \A r \in Runs : (r \in cancels) <=> InProgress(r)
    /\ \A r \in Runs : trace[r] # <<>> => trace[r][1] = "register"
    /\ (\A r \in Runs : ~InProgress(r)) => cancels = {}

\* Execute returned an error and its entry is gone
C12_Witness ==
    \E r \in Runs : /\ pc[r] = "done"
                    /\ result[r] = "err"
                    /\ Did(r, "markFailed")
                    /\ r \notin cancels

\* C13: the DELETE of a run found pending or running answers 204 with the
\* run and its metrics gone (500 and nothing deleted when DeleteRun fails);
\* a deleted run never comes back and never gets a metrics row, so no
\* metrics row exists without its run; and the Execute still in flight
\* returns with none of the run's cluster objects left.
C13_DeleteIsFinal ==
    /\ [][\A r \in Runs :
             (hpc[r] = "delete.DeleteRun" /\ hpc'[r] = "idle"
                 /\ hrun[r] \in Active) =>
                 \/ /\ resp'[r] = 204
                    /\ runs'[r] = NoRun
                    /\ metrics'[r] = NoMetrics
                 \/ /\ resp'[r] = 500
                    /\ UNCHANGED <<runs, metrics>>]_vars
    /\ [][\A r \in Runs :
             (pc[r] # "idle" /\ runs[r] = NoRun) =>
                 (runs'[r] = NoRun /\ metrics'[r] = NoMetrics)]_vars
    /\ [](\A r \in Runs : metrics[r] # NoMetrics => Exists(r))
    /\ \A r \in Runs :
          (pc[r] # "idle" /\ ~Exists(r)) ~> (pc[r] = "done" /\ NoResources(r))

\* a run found running was deleted with 204 while its Execute waits for the
\* load generator job, which exists
C13_Witness ==
    \E r \in Runs : /\ ~Exists(r)
                    /\ resp[r] = 204
                    /\ hrun[r] \in Active
                    /\ pc[r] = "waitAndCollect"
                    /\ loadgenName(r) \in jobs

\* C14: once Execute has returned after a failed ParseLoadgenOutput, the
\* run (if it still exists) is failed, has no metrics row, and its
\* Deployment, Service and Job are gone.  A markFailed update that the
\* database itself rejected is not held against the claim.
C14_ParseFailureMarksFailed ==
    \A r \in Runs :
        (Did(r, "parse.err") /\ pc[r] = "done" /\ Exists(r)
            /\ markFailedResult[r] # "dbErr") =>
            /\ runs[r].status = "failed"
            /\ metrics[r] = NoMetrics
            /\ NoResources(r)

\* C15: once Execute has returned after a failed PersistMetrics, the run
\* (if it still exists) is failed, Execute has not issued the completed
\* update, and the run has no metrics row.  A markFailed update that the
\* database itself rejected is not held against the claim.
C15_PersistFailureMarksFailed ==
    \A r \in Runs :
        (Did(r, "persistMetrics.err") /\ pc[r] = "done" /\ Exists(r)
            /\ markFailedResult[r] # "dbErr") =>
            /\ runs[r].status = "failed"
            /\ ~Did(r, "markCompleted")
            /\ ~Did(r, "markCompleted.err")
            /\ metrics[r] = NoMetrics

\* C16: when the Mark Running update fails, Execute returns an error and
\* has issued no create and no delete request to the cluster, then or later.
C16_MarkRunningFailureTouchesNothing ==
    \A r \in Runs :
        Did(r, "markRunning.err") =>
            /\ result[r] = "err"
            /\ pc[r] \in {"unregister", "done"}
            /\ \A e \in ClusterRequests : ~Did(r, e)

\* Execute has returned after a failed Mark Running
C16_Witness ==
    \E r \in Runs : Did(r, "markRunning.err") /\ pc[r] = "done"

\* C17: the phases of one Execute happen in order: Deployment and Service
\* created (deployModel returned nil) before the readiness wait starts, the
\* Job created only after readiness was observed, the log read only after
\* the Job was seen Complete, a started scraper stopped before
\* ParseLoadgenOutput, and after a failed phase nothing but the scraper's
\* stop, markFailed and the teardown.
C17_PhaseOrder ==
    \A r \in Runs :
        /\ Precedes(r, "createDeployment", "createService")
        /\ Precedes(r, "deployModel", "waitForReady")
        /\ Precedes(r, "ready", "createJob")
        /\ Precedes(r, "complete", "readJobLogs")
        /\ Precedes(r, "complete", "readJobLogs.err")
        /\ Did(r, "scraperStart") =>
              /\ Precedes(r, "scraperStop", "parse")
              /\ Precedes(r, "scraperStop", "parse.err")
        /\ Precedes(r, "parse", "persistMetrics")
        /\ Precedes(r, "parse", "persistMetrics.err")
        /\ \A i \in DOMAIN trace[r], j \in DOMAIN trace[r] :
              (i < j /\ trace[r][i] \in ErrEvents) =>
                  trace[r][j] \in AfterFailure

\* a whole run on a GPU instance type: scraper started and stopped, output
\* parsed, metrics persisted
C17_Witness ==
    \E r \in Runs : /\ pc[r] = "done"
                    /\ Did(r, "scraperStart")
                    /\ Did(r, "scraperStop")
                    /\ Did(r, "persistMetrics")

\* C18: the context of a run becomes cancelled only by a CancelRun call
\* that finds the run registered or by Execute's own return; the end of the
\* create request, which the create step includes, does not cancel it.
C18_ExecuteContextDetached ==
    [][\A r \in Runs :
          (~ctxDone[r] /\ ctxDone'[r]) =>
              \/ CancelRunStep(r) /\ r \in cancels
              \/ pc[r] = "unregister" /\ pc'[r] = "done"]_vars

\* the create request was answered and is over; the run it started waits
\* for readiness with a live context
C18_Witness ==
    \E r \in Runs : /\ createResp.code = 202
                    /\ createResp.id = r
                    /\ pc[r] = "waitForReady"
                    /\ ~ctxDone[r]

\* C19: a create request naming an instance type that does not exist is
\* answered 404 (500 when a repository call before the lookup fails),
\* creates no run and starts no Execute; 404 is answered for such requests
\* only; a 202 carries the id of a run that did not exist before and is
\* now pending, with status "pending" in the body and its Execute spawned.
C19_CreateRunAnswers ==
    [][createResp' # createResp =>
          /\ (createResp'.inst \notin KnownInstances \cup {"none"}) =>
                /\ createResp'.code \in {404, 500}
                /\ UNCHANGED <<runs, metrics, pc, cancels, trace>>
          /\ createResp'.code = 404 =>
                createResp'.inst \notin KnownInstances \cup {"none"}
          /\ createResp'.code = 202 =>
                /\ createResp'.id \in Runs
                /\ createResp'.status = "pending"
                /\ runs[createResp'.id] = NoRun
                /\ runs'[createResp'.id].status = "pending"
                /\ pc[createResp'.id] = "idle"
                /\ pc'[createResp'.id] = "spawned"]_vars

\* the last create request named an unknown instance type and got 404; no
\* run exists and no Execute was started
C19_Witness ==
    /\ createResp.code = 404
    /\ createResp.inst \notin KnownInstances
    /\ \A r \in Runs : runs[r] = NoRun /\ pc[r] = "idle"

\* C20: a cancel request goes on to CancelRun only for a run found pending
\* or running; a request answered at once (404 for an unknown id, 409 for a
\* cancel on a completed or failed run, 500 on a query error) changes no
\* status, timestamp, metrics row, registry entry, context or cluster
\* object and invokes no cancel handle.
C20_CancelRejected ==
    [][/\ \A r \in Runs :
             (hpc[r] = "idle" /\ hpc'[r] = "cancel.CancelRun") =>
                 Exists(r) /\ runs[r].status \in Active
       /\ (reqs' = reqs + 1 /\ hpc' = hpc) =>
             /\ UNCHANGED <<runs, metrics, clock, cancels, ctxDone,
                            clusterVars, pc, cancelKinds>>
             /\ \A r \in Runs :
                   resp'[r] # resp[r] =>
                       resp'[r] \in
                           (IF ~Exists(r) THEN {404, 500}
                            ELSE IF runs[r].status \in Terminal
                                 THEN {409, 500}
                                 ELSE {500})]_vars

\* a cancel request on a completed run was answered 409
C20_Witness ==
    \E r \in Runs : /\ resp[r] = 409
                    /\ hrun[r] = "completed"
                    /\ runs[r].status = "completed"
                    /\ metrics[r] # NoMetrics

(* ---------------------------------------------------------------------- *)
(* Parallel runs, catalog, models, pricing, metrics, parsing, scraper      *)
(* ---------------------------------------------------------------------- *)

\* the step is one of Execute(r) or of r's creation
Acts(r) ==
    \/ pc'[r] # pc[r]
    \/ polls'[r] # polls[r]
    \/ trace'[r] # trace[r]

\* C21: a step of one run never cancels another run's context, never
\* changes another run's status or metrics, and never removes the
\* Deployment, Service or Job another run has created and not yet torn down.
C21_RunsIndependent ==
    [][\A r \in Runs : \A x \in Runs \ {r} :
          Acts(r) =>
              /\ ctxDone'[x] = ctxDone[x]
              /\ runs'[x] = runs[x]
              /\ metrics'[x] = metrics[x]
              /\ (Did(x, "deployModel") /\ ~Did(x, "deleteDeployment")) =>
                    /\ modelName(x) \in deployments
                          => modelName(x) \in deployments'
                    /\ modelName(x) \in services
                          => modelName(x) \in services'
              /\ (Did(x, "launchLoadgen") /\ ~Did(x, "deleteJob")) =>
                    (loadgenName(x) \in jobs => loadgenName(x) \in jobs')]_vars

(* ---------------------------------------------------------------------- *)
(* The catalog query (ListCatalog)                                         *)
(* ---------------------------------------------------------------------- *)

\* run_type TEXT NOT NULL CHECK (run_type IN ('catalog', 'on_demand'))
RunTypes == {"catalog", "on_demand"}

\* the statuses of the rows the catalog is queried over
CatalogStatuses == {"running", "completed"}

\* the two implementations of Repo.ListCatalog
CatalogImpls == {"Repository", "MockRepo"}

DefaultLimit == 100

MaxLimit == 500

\* the filters a caller supplies ("" and 0: not supplied)
CatalogFilters ==
    [ModelHfID : {"", "meta-llama/Llama-3.1-8B"},
     ModelFamily : {"", "mistral"},
     InstanceFamily : {"", "g5"},
     AcceleratorType : {"", "neuron"},
     Limit : {0, 1}]

\* limit := 100; if f.Limit > 0 && f.Limit <= 500 { limit = f.Limit }
Limit(f) == IF f.Limit > 0 /\ f.Limit <= MaxLimit THEN f.Limit ELSE DefaultLimit

\* the optional conditions on the joined model and instance type rows
FilterHolds(id, f) ==
    LET m == ModelRows[runAttrs[id].model_id]
        it == InstanceTypeRows[runAttrs[id].instance_type_id]
    IN  /\ f.ModelHfID # "" => m.hf_id = f.ModelHfID
        /\ f.ModelFamily # "" => m.model_family = f.ModelFamily
        /\ f.InstanceFamily # "" => it.family = f.InstanceFamily
        /\ f.AcceleratorType # "" => it.accelerator_type = f.AcceleratorType

\* the rows benchmark_runs JOIN models JOIN instance_types JOIN
\* benchmark_metrics has: one per run whose three references resolve
Joined(id) ==
    /\ runs[id] # NoRun
    /\ runAttrs[id].model_id \in DOMAIN ModelRows
    /\ runAttrs[id].instance_type_id \in DOMAIN InstanceTypeRows
    /\ metrics[id] # NoMetrics
    /\ metrics[id].run_id = id

RepositoryListCatalog_KeepSuperseded(f) ==
    {id \in Runs : /\ Joined(id)
                   /\ runs[id].status = "completed"
                   /\ FilterHolds(id, f)}

\* Repository.ListCatalog: the run ids of the rows the query selects
RepositoryListCatalog(f) ==
    {id \in Runs : /\ Joined(id)
                   /\ runs[id].status = "completed"
                   /\ runs[id].superseded = FALSE
                   /\ FilterHolds(id, f)}

\* MockRepo.ListCatalog: the run ids of the entries the loop appends
MockRepoListCatalog(f) ==
    {id \in Runs : /\ ~(\/ runs[id].status # "completed"
                        \/ runs[id].superseded
                        \/ runAttrs[id].run_type # "catalog")
                   /\ Joined(id)
                   /\ FilterHolds(id, f)}

\* the sequences that list every element of S once
Orderings(S) ==
    {s \in [1..Cardinality(S) -> S] :
        \A i, j \in DOMAIN s : i # j => s[i] # s[j]}

\* position of a row in ORDER BY m.hf_id, it.name
SortKey(id) ==
    (IF runAttrs[id].model_id = "m1" THEN 0 ELSE 2)
    + (IF runAttrs[id].instance_type_id = "i1" THEN 0 ELSE 1)

\* the orders the rows can come back in: the query's ORDER BY (rows with
\* equal keys in either order), the mock's map iteration (any order)
RowOrders(impl, S) ==
    {s \in Orderings(S) :
        impl = "Repository" =>
            \A i, j \in DOMAIN s : i < j => SortKey(s[i]) <= SortKey(s[j])}

\* LIMIT n / entries[:limit]
Take(s, n) == IF Len(s) > n THEN SubSeq(s, 1, n) ELSE s

\* a run as some earlier history of the service and of the catalog tooling
\* left it in the database: any status, superseded or not, with or without
\* its metrics row, of either run type
CatalogSeedRun(r) ==
    /\ runs[r] = NoRun
    /\ \E st \in CatalogStatuses, sup \in BOOLEAN, hasMetrics \in BOOLEAN,
          m \in DOMAIN ModelRows, it \in DOMAIN InstanceTypeRows,
          rt \in RunTypes :
         /\ runs' = [runs EXCEPT ![r] = [status |-> st, started_at |-> 0,
                                         completed_at |-> 0,
                                         superseded |-> sup]]
         /\ metrics' = IF hasMetrics
                       THEN [metrics EXCEPT ![r] = [run_id |-> r, val |-> "m1"]]
                       ELSE metrics
         /\ runAttrs' = [runAttrs EXCEPT ![r] =
                            [model_id |-> m, instance_type_id |-> it,
                             run_type |-> rt]]
    /\ UNCHANGED <<clock, pc, reqs, orchVars, catalogResult, notCatalogVars>>

\* one ListCatalog(ctx, f) call on either implementation; a failed query
\* returns the error and no rows.  A behaviour makes one call: a call
\* changes no table, so a later call sees what the first call of another
\* behaviour sees.
CatalogListCatalog ==
    /\ ~catalogResult.called
    /\ \E impl \in CatalogImpls, f \in CatalogFilters, dbErr \in BOOLEAN :
         LET sel == IF impl = "Repository" THEN RepositoryListCatalog(f)
                    ELSE MockRepoListCatalog(f)
         IN  \E s \in RowOrders(impl, sel) :
                catalogResult' =
                    [called |-> TRUE, impl |-> impl, filter |-> f,
                     err |-> (dbErr /\ impl = "Repository"),
                     rows |-> IF dbErr /\ impl = "Repository" THEN <<>>
                              ELSE Take(s, Limit(f))]
    /\ UNCHANGED <<repoVars, pc, reqs, orchVars, runAttrs, notCatalogVars>>

CatalogNext ==
    \/ \E r \in Runs : CatalogSeedRun(r)
    \/ CatalogListCatalog

CatalogSpec == Init /\ [][CatalogNext]_vars

\* ids of the rows of a ListCatalog answer
RowIds(res) == {res.rows[i] : i \in DOMAIN res.rows}

\* C22: every row a ListCatalog call returns belongs to a run that at the
\* time of the call is completed, not superseded and has a metrics row, and
\* whose model and instance type satisfy every supplied filter; no run id
\* appears twice in the answer.
C22_CatalogRowsEligible ==
    [][catalogResult' # catalogResult =>
          LET res == catalogResult'
          IN  /\ \A id \in RowIds(res) :
                    /\ runs[id] # NoRun
                    /\ runs[id].status = "completed"
                    /\ runs[id].superseded = FALSE
                    /\ metrics[id] # NoMetrics
                    /\ FilterHolds(id, res.filter)
              /\ \A i, j \in DOMAIN res.rows :
                    i # j => res.rows[i] # res.rows[j]]_vars

C22_Witness ==
    /\ catalogResult.called
    /\ catalogResult.impl = "Repository"
    /\ catalogResult.filter.InstanceFamily = "g5"
    /\ Len(catalogResult.rows) = 1
    /\ \E id \in Runs \ RowIds(catalogResult) :
          /\ runs[id].status = "completed"
          /\ runs[id].superseded
          /\ metrics[id] # NoMetrics
          /\ runAttrs[id].instance_type_id = "i1"

\* C23: a successful ListCatalog call with no filter and a limit above the
\* number of runs returns every completed, non-superseded run that has a
\* metrics row, on_demand runs as well as catalog runs.
C23_CatalogIncludesOnDemand ==
    [][(/\ catalogResult' # catalogResult
        /\ ~catalogResult'.err
        /\ catalogResult'.filter = NoCatalogResult.filter) =>
          \A id \in Runs :
              (/\ runs[id] # NoRun
               /\ runs[id].status = "completed"
               /\ runs[id].superseded = FALSE
               /\ metrics[id] # NoMetrics) => id \in RowIds(catalogResult')]_vars

(* ---------------------------------------------------------------------- *)
(* Concurrent EnsureModel calls                                            *)
(* ---------------------------------------------------------------------- *)

serviceVars == <<repoVars, pc, reqs, orchVars>>

\* SELECT ... FROM models WHERE hf_id = $1 AND hf_revision = $2
GetModelByHfID(ms, key) == {m \in ms : m.key = key}

\* gen_random_uuid(): an id no row of the table has
NewModelId(ms) == Cardinality(ms) + 1

InsertModel_NoConflictClause(ms, key) ==
    IF GetModelByHfID(ms, key) # {}
    THEN [models |-> ms, id |-> 0, err |-> "unique_violation"]
    ELSE [models |-> ms \cup {[id |-> NewModelId(ms), key |-> key]},
          id |-> NewModelId(ms), err |-> "none"]

\* INSERT INTO models ... ON CONFLICT (hf_id, hf_revision) DO UPDATE SET
\* hf_id = EXCLUDED.hf_id RETURNING id: one atomic statement that inserts a
\* row with a fresh id, or on the unique index's conflict rewrites the
\* existing row's hf_id with the same value, and returns the row's id
InsertModel(ms, key) ==
    IF GetModelByHfID(ms, key) # {}
    THEN [models |-> ms,
          id |-> (CHOOSE m \in GetModelByHfID(ms, key) : TRUE).id,
          err |-> "none"]
    ELSE [models |-> ms \cup {[id |-> NewModelId(ms), key |-> key]},
          id |-> NewModelId(ms), err |-> "none"]

\* EnsureModel up to the return of GetModelByHfID: a failed query returns its
\* error, a row found is returned, no row leads on to the INSERT
EnsureModelGet(c) ==
    /\ ensure[c].pc = "idle"
    /\ \E key \in ModelKeys, dbErr \in BOOLEAN :
         LET found == GetModelByHfID(models, key)
         IN  ensure' = [ensure EXCEPT ![c] =
                 IF dbErr
                 THEN [pc |-> "done", key |-> key, id |-> 0, err |-> "db"]
                 ELSE IF found # {}
                 THEN [pc |-> "done", key |-> key,
                       id |-> (CHOOSE m \in found : TRUE).id, err |-> "none"]
                 ELSE [pc |-> "insert", key |-> key, id |-> 0,
                       err |-> "none"]]
    /\ UNCHANGED <<serviceVars, models, notEnsureVars>>

\* EnsureModel from the INSERT to its return
EnsureModelInsert(c) ==
    /\ ensure[c].pc = "insert"
    /\ \E dbErr \in BOOLEAN :
         LET res == InsertModel(models, ensure[c].key)
         IN  IF dbErr
             THEN /\ models' = models
                  /\ ensure' = [ensure EXCEPT ![c].pc = "done",
                                              ![c].err = "db"]
             ELSE /\ models' = res.models
                  /\ ensure' = [ensure EXCEPT ![c].pc = "done",
                                              ![c].id = res.id,
                                              ![c].err = res.err]
    /\ UNCHANGED <<serviceVars, notEnsureVars>>

EnsureModel(c) == EnsureModelGet(c) \/ EnsureModelInsert(c)

EnsureNext == \E c \in Callers : EnsureModel(c)

EnsureSpec == Init /\ [][EnsureNext]_vars

\* the calls that have returned a model
Ensured == {c \in Callers : ensure[c].pc = "done" /\ ensure[c].err = "none"}

\* C24: however concurrent EnsureModel calls interleave, a call fails only
\* when the database fails under it, never because another call created the
\* model first; calls with the same (hf_id, hf_revision) return the same
\* model id and calls with different keys different ids; the table holds
\* exactly one row per key a call has returned.
C24_EnsureModelConcurrent ==
    /\ \A c \in Callers : ensure[c].err \in {"none", "db"}
    /\ \A c, d \in Ensured :
          (ensure[c].key = ensure[d].key) <=> (ensure[c].id = ensure[d].id)
    /\ \A c \in Ensured :
          /\ Cardinality(GetModelByHfID(models, ensure[c].key)) = 1
          /\ \A m \in GetModelByHfID(models, ensure[c].key) :
                m.id = ensure[c].id
    /\ \A m, n \in models : m.key = n.key => m = n

\* two calls for one key and a third for another key have all returned
C24_Witness ==
    /\ Ensured = Callers
    /\ ensure["c1"].key = ensure["c2"].key
    /\ ensure["c3"].key # ensure["c1"].key
    /\ Cardinality(models) = 2
    /\ ensure["c1"].id = ensure["c2"].id

(* ---------------------------------------------------------------------- *)
(* Pricing refresh (cmd/pricingrefresh, UpsertPricing)                     *)
(* ---------------------------------------------------------------------- *)

\* the key of the unique index idx_pricing_instance_region_date
PricingKey(p) == <<p.instance_type_id, p.region, p.effective_date>>

UpsertPricing_DoNothing(tbl, p) ==
    IF \E q \in tbl : PricingKey(q) = PricingKey(p)
    THEN tbl
    ELSE tbl \cup {p}

\* INSERT INTO pricing ... ON CONFLICT (instance_type_id, region,
\* effective_date) DO UPDATE SET the three prices to the new values
UpsertPricing(tbl, p) ==
    IF \E q \in tbl : PricingKey(q) = PricingKey(p)
    THEN {IF PricingKey(q) = PricingKey(p)
          THEN [q EXCEPT !.on_demand_hourly_usd = p.on_demand_hourly_usd]
          ELSE q : q \in tbl}
    ELSE tbl \cup {p}

\* the Pricing API answers differently from now on; `changed` remembers
\* that the refresher's runs no longer see identical upstream data
UpstreamChange ==
    /\ refresher.i = 0
    /\ \E i \in DOMAIN Worklist, price \in Prices :
         /\ upstream[i] # price
         /\ upstream' = [upstream EXCEPT ![i] = price]
    /\ refresher' = [refresher EXCEPT !.changed = (refresher.run > 0)]
    /\ UNCHANGED <<serviceVars, pricing, day, pricingOp, notPricingVars>>

\* midnight passes between two runs of the CronJob
NextDay ==
    /\ refresher.i = 0
    /\ day < MaxDays
    /\ day' = day + 1
    /\ refresher' = [refresher EXCEPT !.changed = (refresher.run > 0)]
    /\ UNCHANGED <<serviceVars, pricing, upstream, pricingOp, notPricingVars>>

\* main up to the loops: today := time.Now().Format("2006-01-02")
RefreshStart ==
    /\ refresher.i = 0
    /\ refresher.run < MaxRefreshRuns
    /\ refresher' = [refresher EXCEPT !.run = @ + 1, !.i = 1, !.today = day]
    /\ UNCHANGED <<serviceVars, pricing, upstream, day, pricingOp,
                   notPricingVars>>

\* one iteration of the inner loop: fetchPricing, and on its error continue;
\* else UpsertPricing, whose error is logged and skipped
RefreshStep ==
    /\ refresher.i \in DOMAIN Worklist
    /\ LET w == Worklist[refresher.i]
           p == [instance_type_id |-> w.it, region |-> w.region,
                 on_demand_hourly_usd |-> upstream[refresher.i],
                 effective_date |-> refresher.today]
       IN  \E dbErr \in BOOLEAN :
              IF upstream[refresher.i] = 0
              THEN /\ pricing' = pricing
                   /\ pricingOp' = [kind |-> "fetchErr", p |-> p]
                   /\ refresher' = [refresher EXCEPT !.i = @ + 1]
              ELSE IF dbErr
              THEN /\ pricing' = pricing
                   /\ pricingOp' = [kind |-> "upsertErr", p |-> p]
                   /\ refresher' = [refresher EXCEPT
                                       !.i = @ + 1,
                                       !.failed = @ \/ refresher.run = 1]
              ELSE /\ pricing' = UpsertPricing(pricing, p)
                   /\ pricingOp' = [kind |-> "upsert", p |-> p]
                   /\ refresher' = [refresher EXCEPT !.i = @ + 1]
    /\ UNCHANGED <<serviceVars, upstream, day, notPricingVars>>

\* the loops are over and main returns
RefreshEnd ==
    /\ refresher.i = Len(Worklist) + 1
    /\ refresher' = [refresher EXCEPT !.i = 0]
    /\ UNCHANGED <<serviceVars, pricing, upstream, day, pricingOp,
                   notPricingVars>>

PricingNext ==
    \/ UpstreamChange
    \/ NextDay
    \/ RefreshStart
    \/ RefreshStep
    \/ RefreshEnd

PricingSpec == Init /\ [][PricingNext]_vars

C26_CreateStoresPending ==
    [][\A r \in Runs :
          (pc[r] = "idle" /\ pc'[r] = "created") =>
              /\ runs[r] = NoRun
              /\ metrics[r] = NoMetrics
              /\ runs'[r].status = "pending"]_vars

(* ---------------------------------------------------------------------- *)
(* ComputeMetrics (internal/metrics)                                       *)
(* ---------------------------------------------------------------------- *)

\* the requests of s with Success set, in order
RECURSIVE SelectSuccessful(_)
SelectSuccessful(s) ==
    IF s = <<>> THEN <<>>
    ELSE IF Head(s).success THEN <<Head(s)>> \o SelectSuccessful(Tail(s))
    ELSE SelectSuccessful(Tail(s))

filterSuccessful_All(results) == results

filterSuccessful(results) == SelectSuccessful(results)

\* v put into the ascending sequence s at its place
RECURSIVE Insert(_, _)
Insert(s, v) ==
    IF s = <<>> THEN <<v>>
    ELSE IF v <= Head(s) THEN <<v>> \o s
    ELSE <<Head(s)>> \o Insert(Tail(s), v)

\* sort.Float64s on a copy
RECURSIVE SortFloat64s(_)
SortFloat64s(vals) ==
    IF vals = <<>> THEN <<>>
    ELSE Insert(SortFloat64s(Tail(vals)), Head(vals))

\* math.Ceil(a / b) for a >= 0, b > 0
Ceil(a, b) == (a + b - 1) \div b

percentile_Floor(sorted, p) ==
    LET idx == ((p * Len(sorted)) \div 100) - 1
        clamped == IF idx < 0 THEN 0
                   ELSE IF idx >= Len(sorted) THEN Len(sorted) - 1
                   ELSE idx
    IN  sorted[clamped + 1]

\* percentile(sorted, p), nearest rank: rank = (p / 100.0) * len, idx =
\* ceil(rank) - 1 clamped to the slice (indices here start at 1).  For the
\* lengths of the model the float product is not within rounding distance
\* of an integer it does not equal, so the exact quotient gives the same idx.
percentile(sorted, p) ==
    LET idx == Ceil(p * Len(sorted), 100) - 1
        clamped == IF idx < 0 THEN 0
                   ELSE IF idx >= Len(sorted) THEN Len(sorted) - 1
                   ELSE idx
    IN  sorted[clamped + 1]

\* nil, nil, nil, nil
NilPercentiles == [nil |-> TRUE, p50 |-> 0, p90 |-> 0, p95 |-> 0, p99 |-> 0]

percentiles_Unsorted(vals) ==
    IF Len(vals) = 0 THEN NilPercentiles
    ELSE [nil |-> FALSE,
          p50 |-> percentile(vals, 50), p90 |-> percentile(vals, 90),
          p95 |-> percentile(vals, 95), p99 |-> percentile(vals, 99)]

\* percentiles(vals)
percentiles(vals) ==
    IF Len(vals) = 0 THEN NilPercentiles
    ELSE LET sorted == SortFloat64s(vals)
         IN  [nil |-> FALSE,
              p50 |-> percentile(sorted, 50), p90 |-> percentile(sorted, 90),
              p95 |-> percentile(sorted, 95), p99 |-> percentile(sorted, 99)]

\* the sum of the numbers of a sequence
RECURSIVE SumOf(_)
SumOf(s) == IF s = <<>> THEN 0 ELSE Head(s) + SumOf(Tail(s))

\* a nil *float64
NilQuotient == [nil |-> TRUE, num |-> 0, den |-> 1]

\* ComputeMetrics(output): the twelve percentile fields; the per-request
\* throughput avgTokens / avgDur, kept as the quotient of the two sums (both
\* averages divide by the same count), nil without a successful request or
\* with avgDur <= 0; and the fields copied from the summary
ComputeMetrics(output) ==
    LET successful == filterSuccessful(output.requests)
        ttfts == [i \in DOMAIN successful |-> successful[i].ttft_ms]
        e2es == [i \in DOMAIN successful |-> successful[i].e2e_latency_ms]
        itls == [i \in DOMAIN successful |-> successful[i].itl_ms]
        totalOutputTokens ==
            SumOf([i \in DOMAIN successful |-> successful[i].output_tokens])
        totalDur ==
            SumOf([i \in DOMAIN successful |-> successful[i].duration_seconds])
        throughputPerRequest ==
            IF Len(successful) > 0 /\ totalDur > 0
            THEN [nil |-> FALSE, num |-> totalOutputTokens, den |-> totalDur]
            ELSE NilQuotient
    IN  [called |-> TRUE, ttft |-> percentiles(ttfts),
         e2e |-> percentiles(e2es), itl |-> percentiles(itls),
         throughput_per_request_tps |-> throughputPerRequest,
         throughput_aggregate_tps |-> output.summary.throughput_aggregate_tps,
         requests_per_second |-> output.summary.requests_per_second,
         successful_requests |-> output.summary.successful_requests,
         failed_requests |-> output.summary.failed_requests,
         total_duration_seconds |-> output.summary.total_duration_seconds]

\* the load generator reports one more request
AppendRequest ==
    /\ ~bm.called
    /\ Len(outRequests) < MaxResults
    /\ \E r \in RequestResults : outRequests' = Append(outRequests, r)
    /\ UNCHANGED <<serviceVars, summary, bm, notMetricsVars>>

\* ComputeMetrics is called on the parsed output, whose summary is one of
\* the load generator's reports
CallComputeMetrics ==
    /\ ~bm.called
    /\ \E sm \in Summaries :
         /\ summary' = sm
         /\ bm' = ComputeMetrics([requests |-> outRequests, summary |-> sm])
    /\ UNCHANGED <<serviceVars, outRequests, notMetricsVars>>

MetricsNext == AppendRequest \/ CallComputeMetrics

MetricsSpec == Init /\ [][MetricsNext]_vars

\* the values of one field over the successful requests
FieldValues(f) ==
    {IF f = "ttft" THEN outRequests[i].ttft_ms
     ELSE IF f = "e2e" THEN outRequests[i].e2e_latency_ms
     ELSE outRequests[i].itl_ms : i \in {j \in DOMAIN outRequests : outRequests[j].success}}

\* C27: when at least one request succeeded, ComputeMetrics returns for
\* each of ttft, e2e latency and itl four percentiles with
\* p50 <= p90 <= p95 <= p99, each of them a value that one of the
\* successful requests has in that field.
C27_PercentilesMonotone ==
    (bm.called /\ \E i \in DOMAIN outRequests : outRequests[i].success) =>
        /\ ~bm.ttft.nil /\ ~bm.e2e.nil /\ ~bm.itl.nil
        /\ \A f \in {"ttft", "e2e", "itl"} :
              LET ps == IF f = "ttft" THEN bm.ttft
                        ELSE IF f = "e2e" THEN bm.e2e ELSE bm.itl
              IN  /\ ps.p50 <= ps.p90
                  /\ ps.p90 <= ps.p95
                  /\ ps.p95 <= ps.p99
                  /\ {ps.p50, ps.p90, ps.p95, ps.p99} \subseteq FieldValues(f)

\* three requests were measured, the larger ttft first, one of them failed,
\* and the median is below the upper percentiles
C27_Witness ==
    /\ bm.called
    /\ Len(outRequests) = 3
    /\ outRequests[1].ttft_ms = 2 /\ outRequests[1].success
    /\ outRequests[2].ttft_ms = 1 /\ outRequests[2].success
    /\ ~outRequests[3].success
    /\ bm.ttft.p50 = 1
    /\ bm.ttft.p99 = 2

(* ---------------------------------------------------------------------- *)
(* ParseLoadgenOutput (internal/metrics)                                   *)
(* ---------------------------------------------------------------------- *)

\* bytes.Index(s, marker): position of the first marker piece, 0 for -1
Index(s, marker) ==
    IF \E i \in DOMAIN s : s[i] = marker
    THEN CHOOSE i \in DOMAIN s : s[i] = marker /\ \A j \in 1..(i - 1) : s[j] # marker
    ELSE 0

\* json.Unmarshal(b, &out) succeeds: b, surrounding white space aside, is
\* one JSON document of the schema
Unmarshals(b) == Len(b) = 1 /\ b[1] \in Payloads

\* strategy 1: the content between the first begin marker and the next end
\* marker, accepted when it unmarshals and has a request
Strategy1(buf) ==
    LET beginIdx == Index(buf, beginMarker)
        rest == SubSeq(buf, beginIdx + 1, Len(buf))
        endIdx == Index(rest, endMarker)
        jsonData == SubSeq(rest, 1, endIdx - 1)
    IN  IF /\ beginIdx > 0
           /\ endIdx > 0
           /\ Unmarshals(jsonData)
           /\ jsonData[1].requests > 0
        THEN jsonData
        ELSE <<>>

\* strategy 2: the whole blob
Strategy2(buf) == IF Unmarshals(buf) THEN buf ELSE <<>>

\* strategy 3: the first line that starts with '{', unmarshals on its own
\* and has a request; a document printed over several lines has no such line
Strategy3(buf) ==
    LET ok(i) == /\ buf[i] \in Payloads
                 /\ ~buf[i].multiline
                 /\ buf[i].requests > 0
    IN  IF \E i \in DOMAIN buf : ok(i)
        THEN <<buf[CHOOSE i \in DOMAIN buf :
                      ok(i) /\ \A j \in 1..(i - 1) : ~ok(j)]>>
        ELSE <<>>

\* ParseLoadgenOutput(data): the first strategy that succeeds wins
ParseLoadgenOutput(buf) ==
    IF Strategy1(buf) # <<>>
    THEN [called |-> TRUE, err |-> FALSE, strategy |-> 1, out |-> Strategy1(buf)]
    ELSE IF Strategy2(buf) # <<>>
    THEN [called |-> TRUE, err |-> FALSE, strategy |-> 2, out |-> Strategy2(buf)]
    ELSE IF Strategy3(buf) # <<>>
    THEN [called |-> TRUE, err |-> FALSE, strategy |-> 3, out |-> Strategy3(buf)]
    ELSE [called |-> TRUE, err |-> TRUE, strategy |-> 0, out |-> <<>>]

\* the load generator's pod writes one more piece to its log
AppendPiece ==
    /\ ~parsed.called
    /\ Len(data) < MaxPieces
    /\ \E x \in Pieces : data' = Append(data, x)
    /\ UNCHANGED <<serviceVars, parsed, notParseVars>>

\* Execute hands the log to ParseLoadgenOutput
CallParseLoadgenOutput ==
    /\ ~parsed.called
    /\ parsed' = ParseLoadgenOutput(data)
    /\ UNCHANGED <<serviceVars, data, notParseVars>>

ParseNext == AppendPiece \/ CallParseLoadgenOutput

ParseSpec == Init /\ [][ParseNext]_vars

\* the buffer is noise, the begin marker, one document, the end marker, noise
Delimited(buf, i) ==
    /\ i \in DOMAIN buf /\ i + 2 \in DOMAIN buf
    /\ buf[i] = beginMarker
    /\ buf[i + 1] \in Payloads
    /\ buf[i + 2] = endMarker
    /\ \A j \in DOMAIN buf : (j < i \/ j > i + 2) => buf[j] = Noise

\* C28: when the buffer holds a document of the input schema between the
\* two markers, with nothing but non-JSON noise before the begin marker and
\* after the end marker, ParseLoadgenOutput succeeds and returns that
\* document.
C28_ParseTolerance ==
    parsed.called =>
        \A i \in DOMAIN data :
            Delimited(data, i) =>
                /\ ~parsed.err
                /\ parsed.out = <<data[i + 1]>>

(* ---------------------------------------------------------------------- *)
(* The scraper within Execute                                              *)
(* ---------------------------------------------------------------------- *)

\* how often Execute(r) has done e
Count(r, e) == Cardinality({i \in DOMAIN trace[r] : trace[r][i] = e})

\* C29: Execute starts the scraper only for a run whose instance type has
\* accelerator_type gpu, and only after it has seen the deployment ready;
\* Stop is never called without a Start before it nor twice, and once
\* Execute has returned from an execution that started the scraper, Stop
\* has been called exactly once, also when the launch of the load-generator
\* job failed and when the job wait failed or was cancelled.
C29_ScraperStartedAndStopped ==
    \A r \in Runs :
        /\ Did(r, "scraperStart") =>
              /\ runAttrs[r].instance_type_id \in DOMAIN InstanceTypeRows
              /\ InstanceTypeRows[runAttrs[r].instance_type_id]
                    .accelerator_type = "gpu"
              /\ Precedes(r, "ready", "scraperStart")
              /\ Count(r, "scraperStart") = 1
        /\ Precedes(r, "scraperStart", "scraperStop")
        /\ Count(r, "scraperStop") <= 1
        /\ (pc[r] = "done" /\ Did(r, "scraperStart")) =>
              Count(r, "scraperStop") = 1

\* Execute has returned after a failed launch of the job for a gpu run, and
\* the scraper it had started was stopped
C29_Witness ==
    \E r \in Runs :
        /\ pc[r] = "done"
        /\ Did(r, "scraperStart")
        /\ Did(r, "launchLoadgen.err")
        /\ Count(r, "scraperStop") = 1

(* ---------------------------------------------------------------------- *)
(* GPUScraper: the loop goroutine against Stop                             *)
(* ---------------------------------------------------------------------- *)

\* Start(ctx): derive the scraper's context, keep its cancel, `go s.loop`;
\* loop scrapes at once
ScraperStart ==
    /\ ~scraper.started
    /\ scraper' = [scraper EXCEPT !.started = TRUE]
    /\ scraperPc' = [scraperPc EXCEPT !.loop = "scrape"]
    /\ UNCHANGED <<serviceVars, notScraperVars>>

\* the run's context, parent of the scraper's, is cancelled (CancelRun)
ScraperParentCancel ==
    /\ scraper.started
    /\ ~scraper.ctxDone
    /\ scraper' = [scraper EXCEPT !.ctxDone = TRUE]
    /\ UNCHANGED <<serviceVars, scraperPc, notScraperVars>>

\* scrape up to client.Do: with the context cancelled the request fails at
\* once and scrape returns
ScrapeRequest ==
    /\ scraperPc.loop = "scrape"
    /\ scraperPc' = [scraperPc EXCEPT
                        !.loop = IF scraper.ctxDone THEN "select"
                                 ELSE "inflight",
                        !.scrapes = @ + 1]
    /\ UNCHANGED <<serviceVars, scraper, notScraperVars>>

\* the request ends: an error (transport, the 3 s timeout, the context
\* cancelled meanwhile) or a status other than 200 make scrape return; a 200
\* is parsed into the values the page carries
ScrapeRespond ==
    /\ scraperPc.loop = "inflight"
    /\ \/ scraperPc' = [scraperPc EXCEPT !.loop = "select"]
       \/ /\ ~scraper.ctxDone
          /\ \E v \in ScrapeValues :
                scraperPc' = [scraperPc EXCEPT !.loop = "parsed", !.got = v]
    /\ UNCHANGED <<serviceVars, scraper, notScraperVars>>

\* scrape's tail: under s.mu, append the values that were found
ScrapeAppend ==
    /\ scraperPc.loop = "parsed"
    /\ scraperPc.stop # "aggregating"
    /\ scraper' = [scraper EXCEPT
          !.utilizationSample =
              IF scraperPc.got.utilization >= 0
              THEN Append(@, scraperPc.got.utilization) ELSE @,
          !.waitingSamples =
              IF scraperPc.got.waiting >= 0
              THEN Append(@, scraperPc.got.waiting) ELSE @]
    /\ scraperPc' = [scraperPc EXCEPT !.loop = "select"]
    /\ UNCHANGED <<serviceVars, notScraperVars>>

\* select, case <-ticker.C: scrape again
LoopTick ==
    /\ scraperPc.loop = "select"
    /\ scraperPc.scrapes < MaxScrapes
    /\ scraperPc' = [scraperPc EXCEPT !.loop = "scrape"]
    /\ UNCHANGED <<serviceVars, scraper, notScraperVars>>

\* select, case <-ctx.Done(): return, and the deferred close(s.done) runs
LoopExit ==
    /\ scraperPc.loop = "select"
    /\ scraper.ctxDone
    /\ scraperPc' = [scraperPc EXCEPT !.loop = "exited"]
    /\ scraper' = [scraper EXCEPT !.done = TRUE]
    /\ UNCHANGED <<serviceVars, notScraperVars>>

\* Stop: s.cancel(); Execute calls Stop after Start.  stopAt remembers
\* where the loop stood then.
StopCancel ==
    /\ scraper.started
    /\ scraperPc.stop = "idle"
    /\ scraper' = [scraper EXCEPT !.ctxDone = TRUE]
    /\ scraperPc' = [scraperPc EXCEPT !.stop = "waiting",
                                      !.stopAt = scraperPc.loop]
    /\ UNCHANGED <<serviceVars, notScraperVars>>

StopWait_NoWait ==
    /\ scraperPc.stop = "waiting"
    /\ scraperPc' = [scraperPc EXCEPT !.stop = "aggregating"]
    /\ UNCHANGED <<serviceVars, scraper, notScraperVars>>

\* Stop: <-s.done, then s.mu.Lock()
StopWait ==
    /\ scraperPc.stop = "waiting"
    /\ scraper.done
    /\ scraperPc' = [scraperPc EXCEPT !.stop = "aggregating"]
    /\ UNCHANGED <<serviceVars, scraper, notScraperVars>>

\* the largest element of a sequence of naturals, 0 for none
RECURSIVE Peak(_)
Peak(vals) ==
    IF vals = <<>> THEN 0
    ELSE IF Head(vals) > Peak(Tail(vals)) THEN Head(vals)
    ELSE Peak(Tail(vals))

RECURSIVE Sum(_)
Sum(vals) == IF vals = <<>> THEN 0 ELSE Head(vals) + Sum(Tail(vals))

\* what Stop computes under the mutex: nil without a utilization sample, else
\* peak and sum / n of the utilization samples and the largest waiting count
Aggregate(u, w) ==
    IF Len(u) = 0
    THEN [nil |-> TRUE, peak |-> 0, sum |-> 0, n |-> 0, maxWaiting |-> 0]
    ELSE [nil |-> FALSE, peak |-> Peak(u), sum |-> Sum(u), n |-> Len(u),
          maxWaiting |-> Peak(w)]

\* Stop: aggregate, unlock (deferred), return
StopAggregate ==
    /\ scraperPc.stop = "aggregating"
    /\ scraperPc' = [scraperPc EXCEPT
                        !.stop = "returned",
                        !.result = Aggregate(scraper.utilizationSample,
                                             scraper.waitingSamples)]
    /\ UNCHANGED <<serviceVars, scraper, notScraperVars>>

ScraperLoop ==
    \/ ScrapeRequest
    \/ ScrapeRespond
    \/ ScrapeAppend
    \/ LoopTick
    \/ LoopExit

ScraperStop == StopCancel \/ StopWait \/ StopAggregate

ScraperNext ==
    \/ ScraperStart
    \/ ScraperParentCancel
    \/ ScraperLoop
    \/ ScraperStop

\* Scheduling: the loop goroutine and the goroutine inside Stop keep running
\* (an HTTP request ends by its 3 s timeout at the latest, a select with a
\* ready case returns); once the context is cancelled the ctx.Done() case
\* stays ready while the ticker's is ready only now and then, so the select
\* ends up taking it.  Nothing forces Execute to call Stop.
ScraperSpec ==
    /\ Init
    /\ [][ScraperNext]_vars
    /\ WF_vars(ScrapeRequest \/ ScrapeRespond \/ ScrapeAppend)
    /\ WF_vars(LoopExit)
    /\ WF_vars(StopWait \/ StopAggregate)

\* C30: from the moment Stop holds the mutex to aggregate, the loop has
\* exited and no sample is appended to either buffer any more; what Stop
\* returns is the aggregate of every sample appended; and a Stop called
\* after Start returns.
C30_StopWaitsForLoop ==
    /\ [][scraperPc.stop \in {"aggregating", "returned"} =>
             /\ scraperPc.loop = "exited"
             /\ scraper'.utilizationSample = scraper.utilizationSample
             /\ scraper'.waitingSamples = scraper.waitingSamples
             /\ scraperPc'.stop = "returned" =>
                   scraperPc'.result = Aggregate(scraper'.utilizationSample,
                                                 scraper'.waitingSamples)]_vars
    /\ (scraperPc.stop = "waiting") ~> (scraperPc.stop = "returned")

\* Stop was called while a scrape was in flight whose response had been
\* parsed but not yet appended, and has returned an aggregate that includes
\* that scrape's sample
C30_Witness ==
    /\ scraperPc.stop = "returned"
    /\ scraperPc.stopAt = "parsed"
    /\ scraperPc.scrapes = 2
    /\ ~scraperPc.result.nil
    /\ scraperPc.result.n = 2
    /\ scraperPc.result.peak = 2

\* C37: what Stop returns is absent exactly when neither a utilization
\* sample nor a waiting sample was collected; a result that is present has
\* the largest waiting sample as its waiting max (0 without one) and a peak
\* utilization that is at least the average; and a scrape that ends in a
\* transport error or a status other than 200 appends nothing and leaves
\* the loop at its select, from where the next tick scrapes again.
C37_StopResult ==
    /\ [](scraperPc.stop = "returned" =>
            /\ scraperPc.result.nil <=>
                  /\ Len(scraper.utilizationSample) = 0
                  /\ Len(scraper.waitingSamples) = 0
            /\ ~scraperPc.result.nil =>
                  /\ \A i \in DOMAIN scraper.waitingSamples :
                        scraper.waitingSamples[i] <= scraperPc.result.maxWaiting
                  /\ \/ \E i \in DOMAIN scraper.waitingSamples :
                           scraper.waitingSamples[i] = scraperPc.result.maxWaiting
                     \/ /\ scraper.waitingSamples = <<>>
                        /\ scraperPc.result.maxWaiting = 0
                  /\ scraperPc.result.peak * scraperPc.result.n
                        >= scraperPc.result.sum)
    /\ [][(scraperPc.loop = "inflight" /\ scraperPc'.loop # "inflight"
               /\ scraperPc'.loop # "parsed") =>
             /\ scraper'.utilizationSample = scraper.utilizationSample
             /\ scraper'.waitingSamples = scraper.waitingSamples
             /\ scraperPc'.loop = "select"]_vars

(* ---------------------------------------------------------------------- *)
(* A create that finds the name taken                                      *)
(* ---------------------------------------------------------------------- *)

\* the events of r's trace after its alreadyExists event
AfterAlreadyExists(r) ==
    {trace[r][j] : j \in {j \in DOMAIN trace[r] :
                            \E i \in 1..(j - 1) :
                                trace[r][i] = "alreadyExists"}}

\* C31: after a create of Execute failed because an object of that name
\* exists, Execute creates no further object and enters neither wait, and
\* once it has returned the run (if it still exists) is failed.  A
\* markFailed update that the database itself rejected is not held against
\* the claim.
C31_AlreadyExistsIsHardError ==
    \A r \in Runs :
        /\ AfterAlreadyExists(r) \cap
               {"createDeployment", "createService", "createJob",
                "waitForReady", "waitAndCollect"} = {}
        /\ (Did(r, "alreadyExists") /\ pc[r] = "done" /\ Exists(r)
               /\ markFailedResult[r] # "dbErr") =>
               runs[r].status = "failed"

(* ---------------------------------------------------------------------- *)
(* A load-generator job that reports Failed=True                           *)
(* ---------------------------------------------------------------------- *)

\* C32: a run whose job reported Failed=True never has its pod log read,
\* and once Execute has returned the run (if it still exists) is failed and
\* has no metrics row; the pod log is read only after Complete=True was
\* observed.  A markFailed update that the database itself rejected is not
\* held against the claim.
C32_JobFailedMarksFailed ==
    \A r \in Runs :
        /\ Did(r, "jobFailed") =>
              /\ ~Did(r, "readJobLogs") /\ ~Did(r, "readJobLogs.err")
              /\ metrics[r] = NoMetrics
        /\ Precedes(r, "complete", "readJobLogs")
        /\ Precedes(r, "complete", "readJobLogs.err")
        /\ (Did(r, "jobFailed") /\ pc[r] = "done" /\ Exists(r)
               /\ markFailedResult[r] # "dbErr") =>
               runs[r].status = "failed"

(* ---------------------------------------------------------------------- *)
(* percentiles (internal/metrics)                                          *)
(* ---------------------------------------------------------------------- *)

\* the caller's slice grows by one value
AppendVal ==
    /\ ~pcts.called
    /\ Len(pvals) < MaxVals
    /\ \E v \in Values : pvals' = Append(pvals, v)
    /\ UNCHANGED <<serviceVars, pcts, notPercentileVars>>

\* percentiles(pvals): sorts a copy, so the caller's slice is as it was
CallPercentiles ==
    /\ ~pcts.called
    /\ pcts' = [called |-> TRUE, in |-> pvals, out |-> percentiles(pvals)]
    /\ pvals' = pvals
    /\ UNCHANGED <<serviceVars, notPercentileVars>>

PercentileNext == AppendVal \/ CallPercentiles

PercentileSpec == Init /\ [][PercentileNext]_vars

\* x is the k-th smallest of the values of s, counted with repetitions
IsKthSmallest(s, k, x) ==
    /\ \E i \in DOMAIN s : s[i] = x
    /\ Cardinality({i \in DOMAIN s : s[i] < x}) < k
    /\ Cardinality({i \in DOMAIN s : s[i] <= x}) >= k

\* ceil(p * n / 100), kept within 1..n
NearestRank(p, n) ==
    LET k == CHOOSE k \in 0..n : 100 * k >= p * n /\ 100 * (k - 1) < p * n
    IN  IF k < 1 THEN 1 ELSE k

\* C33: for a non-empty slice of n values percentiles returns, for each p of
\* 50, 90, 95 and 99, the value at index ceil(p*n/100)-1 (kept within
\* 0..n-1) of the slice in ascending order, and the caller's slice is
\* afterwards what it was before the call.
C33_NearestRank ==
    (pcts.called /\ Len(pcts.in) > 0) =>
        /\ ~pcts.out.nil
        /\ IsKthSmallest(pcts.in, NearestRank(50, Len(pcts.in)), pcts.out.p50)
        /\ IsKthSmallest(pcts.in, NearestRank(90, Len(pcts.in)), pcts.out.p90)
        /\ IsKthSmallest(pcts.in, NearestRank(95, Len(pcts.in)), pcts.out.p95)
        /\ IsKthSmallest(pcts.in, NearestRank(99, Len(pcts.in)), pcts.out.p99)
        /\ pvals = pcts.in

\* percentiles was called on the unsorted slice 30, 10, 20 and answered
\* p50 = 20, p90 = 30, p99 = 30
C33_Witness ==
    /\ pcts.called
    /\ pcts.in = <<30, 10, 20>>
    /\ pcts.out.p50 = 20
    /\ pcts.out.p90 = 30
    /\ pcts.out.p99 = 30
    /\ pvals = <<30, 10, 20>>

(* ---------------------------------------------------------------------- *)
(* ComputeMetrics: the successful set and the summary                      *)
(* ---------------------------------------------------------------------- *)

\* the indices of the successful requests
Successful == {i \in DOMAIN outRequests : outRequests[i].success}

\* the sum of f over the index set S
RECURSIVE SumOver(_, _)
SumOver(f, S) ==
    IF S = {} THEN 0
    ELSE LET i == CHOOSE i \in S : TRUE
         IN  f[i] + SumOver(f, S \ {i})

\* C34: ComputeMetrics takes its percentiles and its per-request throughput
\* from the successful requests only: without a successful request the
\* twelve percentile fields and the per-request throughput are absent, and
\* a per-request throughput that is present is the successful requests'
\* output tokens over their durations; the successful and failed counts,
\* the aggregate throughput, the requests per second and the total
\* duration equal the summary's values in every case.
C34_SuccessfulOnly ==
    bm.called =>
        /\ Successful = {} =>
              /\ bm.ttft.nil /\ bm.e2e.nil /\ bm.itl.nil
              /\ bm.throughput_per_request_tps.nil
        /\ ~bm.throughput_per_request_tps.nil =>
              /\ bm.throughput_per_request_tps.num =
                    SumOver([i \in DOMAIN outRequests |->
                                outRequests[i].output_tokens], Successful)
              /\ bm.throughput_per_request_tps.den =
                    SumOver([i \in DOMAIN outRequests |->
                                outRequests[i].duration_seconds], Successful)
        /\ \A f \in {"ttft", "e2e", "itl"} :
              LET ps == IF f = "ttft" THEN bm.ttft
                        ELSE IF f = "e2e" THEN bm.e2e ELSE bm.itl
              IN  ~ps.nil =>
                      {ps.p50, ps.p90, ps.p95, ps.p99} \subseteq FieldValues(f)
        /\ bm.successful_requests = summary.successful_requests
        /\ bm.failed_requests = summary.failed_requests
        /\ bm.throughput_aggregate_tps = summary.throughput_aggregate_tps
        /\ bm.requests_per_second = summary.requests_per_second
        /\ bm.total_duration_seconds = summary.total_duration_seconds

\* two requests, both failed, and a summary that counts two successes:
\* percentiles and per-request throughput are absent, the counts are the
\* summary's
C34_Witness ==
    /\ bm.called
    /\ Len(outRequests) = 2
    /\ Successful = {}
    /\ bm.ttft.nil /\ bm.e2e.nil /\ bm.itl.nil
    /\ bm.throughput_per_request_tps.nil
    /\ summary.successful_requests = 2
    /\ bm.successful_requests = 2
    /\ bm.failed_requests = 1

(* ---------------------------------------------------------------------- *)
(* launchLoadgen: the request counts of the job                            *)
(* ---------------------------------------------------------------------- *)

\* a run request arrives with its concurrency
ReceiveRequest ==
    /\ ~request.set
    /\ \E c \in 0..MaxConcurrency :
         request' = [set |-> TRUE, concurrency |-> c]
    /\ UNCHANGED <<serviceVars, loadgenParams, notLoadgenVars>>

\* numRequests := 200; if cfg.Request.Concurrency > 32 { numRequests =
\* cfg.Request.Concurrency * 10 }
numRequests(c) == IF c > 32 THEN c * 10 ELSE 200

\* launchLoadgen renders the job with NumRequests and WarmupRequests
RenderLoadgenJob ==
    /\ request.set
    /\ ~loadgenParams.rendered
    /\ loadgenParams' = [rendered |-> TRUE,
                         NumRequests |-> numRequests(request.concurrency),
                         WarmupRequests |-> 10]
    /\ UNCHANGED <<serviceVars, request, notLoadgenVars>>

LoadgenNext == ReceiveRequest \/ RenderLoadgenJob

LoadgenSpec == Init /\ [][LoadgenNext]_vars

\* the larger of two numbers
Max(a, b) == IF a >= b THEN a ELSE b

\* C35: the job is rendered with a total request count of
\* max(200, 10 * concurrency) and a warmup request count of 10.
C35_RequestCounts ==
    loadgenParams.rendered =>
        /\ loadgenParams.NumRequests = Max(200, 10 * request.concurrency)
        /\ loadgenParams.WarmupRequests = 10

(* ---------------------------------------------------------------------- *)
(* ListRuns (internal/database)                                            *)
(* ---------------------------------------------------------------------- *)

\* the two implementations of Repo.ListRuns
ListImpls == {"Repository", "MockRepo"}

\* the statuses of the runs the list is taken over
ListStatuses == {"running", "completed"}

\* created_at of a row: two runs can be created at the same instant
CreatedAts == {1, 2}

\* models.hf_id, character by character
HfIdChars ==
    [m1 |-> <<"m", "e", "t", "a", "-", "l", "l", "a", "m", "a", "/", "L", "l", "a", "m", "a", "-", "3", ".", "1", "-", "8", "B">>,
     m3 |-> <<"m", "i", "s", "t", "r", "a", "l", "a", "i", "/", "M", "i", "s", "t", "r", "a", "l", "-", "7", "B">>]

\* the filters a caller supplies ("" and the empty text: not supplied):
\* LLAMA, and a_3
ListFilters ==
    [Status : {"", "completed"},
     ModelID : {<<>>, <<"L", "L", "A", "M", "A">>, <<"a", "_", "3">>},
     Limit : {1, 2}]

UpperCase == <<"A", "B", "C", "D", "E", "F", "G", "H", "I", "J", "K", "L", "M", "N", "O", "P", "Q", "R", "S", "T", "U", "V", "W", "X", "Y", "Z">>

LowerCase == <<"a", "b", "c", "d", "e", "f", "g", "h", "i", "j", "k", "l", "m", "n", "o", "p", "q", "r", "s", "t", "u", "v", "w", "x", "y", "z">>

\* strings.ToLower / the case folding of ILIKE, one character
ToLower(c) ==
    IF \E i \in DOMAIN UpperCase : UpperCase[i] = c
    THEN LowerCase[CHOOSE i \in DOMAIN UpperCase : UpperCase[i] = c]
    ELSE c

\* strings.Contains(strings.ToLower(s), strings.ToLower(sub))
ContainsFold(s, sub) ==
    \E i \in 0..(Len(s) - Len(sub)) :
        \A j \in 1..Len(sub) : ToLower(s[i + j]) = ToLower(sub[j])

\* s ILIKE pattern: % stands for any text, _ for any one character, every
\* other character for itself in either case
RECURSIVE ILike(_, _)
ILike(s, pattern) ==
    IF pattern = <<>> THEN s = <<>>
    ELSE IF Head(pattern) = "%"
    THEN \/ ILike(s, Tail(pattern))
         \/ s # <<>> /\ ILike(Tail(s), pattern)
    ELSE /\ s # <<>>
         /\ Head(pattern) = "_" \/ ToLower(Head(s)) = ToLower(Head(pattern))
         /\ ILike(Tail(s), Tail(pattern))

\* limit := 50; if f.Limit > 0 && f.Limit <= 200 { limit = f.Limit }
ListLimit(f) == IF f.Limit > 0 /\ f.Limit <= 200 THEN f.Limit ELSE 50

\* Repository.ListRuns: the rows of benchmark_runs JOIN models JOIN
\* instance_types that the WHERE clause keeps
RepositoryListRuns(f) ==
    {id \in Runs :
        /\ runs[id] # NoRun
        /\ runAttrs[id].model_id \in DOMAIN ModelRows
        /\ runAttrs[id].instance_type_id \in DOMAIN InstanceTypeRows
        /\ f.Status # "" => runs[id].status = f.Status
        /\ f.ModelID # <<>> =>
              ILike(HfIdChars[runAttrs[id].model_id],
                    <<"%">> \o f.ModelID \o <<"%">>)}

\* MockRepo.ListRuns: the runs the loop appends
MockRepoListRuns(f) ==
    {id \in Runs :
        /\ runs[id] # NoRun
        /\ ~(f.Status # "" /\ runs[id].status # f.Status)
        /\ ~(f.ModelID # <<>>
               /\ ~ContainsFold(IF runAttrs[id].model_id \in DOMAIN HfIdChars
                                THEN HfIdChars[runAttrs[id].model_id]
                                ELSE <<>>, f.ModelID))}

\* the orders the rows can come back in: ORDER BY br.created_at DESC (rows
\* created at the same instant in either order), the mock's iteration over
\* its map of runs (any order)
ListOrders(impl, S) ==
    {s \in Orderings(S) :
        impl = "Repository" =>
            \A i, j \in DOMAIN s :
                i < j => createdAt[s[i]] >= createdAt[s[j]]}

\* OFFSET n / items[f.Offset:]
Drop(s, n) == IF n >= Len(s) THEN <<>> ELSE SubSeq(s, n + 1, Len(s))

\* one ListRuns(ctx, f) call with the given offset: the pages it can return
ListRunsPages(impl, f, offset) ==
    LET sel == IF impl = "Repository" THEN RepositoryListRuns(f)
               ELSE MockRepoListRuns(f)
    IN  {Take(Drop(s, offset), ListLimit(f)) : s \in ListOrders(impl, sel)}

\* a run as some earlier history of the service left it in the database
ListSeedRun(r) ==
    /\ ~listing.started
    /\ runs[r] = NoRun
    /\ \E st \in ListStatuses, m \in DOMAIN ModelRows, at \in CreatedAts :
         /\ runs' = [runs EXCEPT ![r] = [status |-> st, started_at |-> 0,
                                         completed_at |-> 0,
                                         superseded |-> FALSE]]
         /\ runAttrs' = [runAttrs EXCEPT ![r] =
                            [model_id |-> m, instance_type_id |-> "i1",
                             run_type |-> "on_demand"]]
         /\ createdAt' = [createdAt EXCEPT ![r] = at]
    /\ UNCHANGED <<metrics, clock, pc, reqs, orchVars, listing, last,
                   catalogResult, ensureVars, pricingVars, metricsVars,
                   parseVars, scraperVars, percentileVars, loadgenVars>>

\* a client asks for the first page
ListFirstPage ==
    /\ ~listing.started
    /\ \E impl \in ListImpls, f \in ListFilters :
         \E page \in ListRunsPages(impl, f, 0) :
            listing' = [started |-> TRUE, impl |-> impl, filter |-> f,
                        pages |-> <<page>>]
    /\ UNCHANGED <<serviceVars, createdAt, notListVars>>

\* the client asks for the next page, with the same limit and the offset
\* advanced by it, until a page comes back empty
ListNextPage ==
    /\ listing.started
    /\ listing.pages[Len(listing.pages)] # <<>>
    /\ \E page \in ListRunsPages(listing.impl, listing.filter,
                                  Len(listing.pages) * listing.filter.Limit) :
         listing' = [listing EXCEPT !.pages = Append(@, page)]
    /\ UNCHANGED <<serviceVars, createdAt, notListVars>>

ListNext ==
    \/ \E r \in Runs : ListSeedRun(r)
    \/ ListFirstPage
    \/ ListNextPage

ListSpec == Init /\ [][ListNext]_vars

\* sub occurs in s, letter case aside
IsSubstringFold(s, sub) ==
    \E a, b \in 0..Len(s) :
        /\ a + Len(sub) = b
        /\ [k \in 1..Len(sub) |-> ToLower(s[a + k])]
             = [k \in 1..Len(sub) |-> ToLower(sub[k])]

\* the runs that match the filter of the client's calls
Matching ==
    {id \in Runs :
        /\ runs[id] # NoRun
        /\ listing.filter.Status # "" => runs[id].status = listing.filter.Status
        /\ IsSubstringFold(HfIdChars[runAttrs[id].model_id],
                           listing.filter.ModelID)}

\* the pages one after the other
RECURSIVE Concat(_)
Concat(ps) == IF ps = <<>> THEN <<>> ELSE Head(ps) \o Concat(Tail(ps))

\* the client has received an empty page
ListingDone == listing.started /\ listing.pages[Len(listing.pages)] = <<>>

\* C36: every page ListRuns returns holds only runs that match the status
\* filter and the case-insensitive substring filter on the model's hf_id,
\* at most limit of them, newest first; the page at an offset at or beyond
\* the number of matches is empty; and once the client has paged (same
\* limit, offsets 0, limit, 2*limit, ...) up to an empty page over an
\* unchanged repository, the pages together hold every matching run
\* exactly once, newest first.
C36_ListRunsPages ==
    listing.started =>
        LET all == Concat(listing.pages)
        IN  /\ \A i \in DOMAIN all : all[i] \in Matching
            /\ \A k \in DOMAIN listing.pages :
                  /\ Len(listing.pages[k]) <= listing.filter.Limit
                  /\ (k - 1) * listing.filter.Limit >= Cardinality(Matching)
                        => listing.pages[k] = <<>>
            /\ \A i, j \in DOMAIN all :
                  i < j => createdAt[all[i]] >= createdAt[all[j]]
            /\ ListingDone =>
                  /\ \A id \in Matching : \E i \in DOMAIN all : all[i] = id
                  /\ \A i, j \in DOMAIN all : i # j => all[i] # all[j]

(* ---------------------------------------------------------------------- *)
(* Teardown after a create that found the name taken                       *)
(* ---------------------------------------------------------------------- *)

\* C38: the teardown of an Execute one of whose creates found the name
\* taken removes no Deployment, Service or Job that this Execute did not
\* create itself: the object that was there before is still there when the
\* teardown is over.
C38_TeardownOnlyOwn ==
    [][\A r \in Runs :
          (Did(r, "alreadyExists") /\ pc[r] = "teardown"
              /\ pc'[r] # "teardown") =>
              /\ ~Did(r, "createService") => deployments' = deployments
              /\ ~Did(r, "deployModel") => services' = services
              /\ ~Did(r, "launchLoadgen") => jobs' = jobs]_vars

(* ---------------------------------------------------------------------- *)
(* The timestamps of a run                                                 *)
(* ---------------------------------------------------------------------- *)

\* C39: started_at is set by the step that makes a run running and
\* completed_at by the step that makes it completed or failed; a timestamp
\* that is set is not changed by any later step on the row; and a run that
\* is completed or failed has completed_at set.
C39_TimestampsWrittenOnce ==
    /\ [](\A r \in Runs :
            runs[r].status \in Terminal => runs[r].completed_at # 0)
    /\ [][\A r \in Runs :
            (runs[r] # NoRun /\ runs'[r] # NoRun) =>
                /\ (runs[r].status # "running" /\ runs'[r].status = "running")
                      => runs'[r].started_at # 0
                /\ runs[r].started_at # 0
                      => runs'[r].started_at = runs[r].started_at
                /\ runs[r].completed_at # 0
                      => runs'[r].completed_at = runs[r].completed_at]_vars

(* ---------------------------------------------------------------------- *)
(* ParseLoadgenOutput: documents without requests                          *)
(* ---------------------------------------------------------------------- *)

\* the positions of the JSON documents in the buffer
Documents(buf) == {i \in DOMAIN buf : buf[i] \in Payloads}

\* C40: a ParseLoadgenOutput that succeeds returns a document with at least
\* one request, whichever strategy found it; and a buffer whose only JSON
\* document has no requests is rejected with the error.
C40_NonEmptyRequests ==
    parsed.called =>
        /\ ~parsed.err =>
              /\ Len(parsed.out) = 1
              /\ parsed.out[1].requests > 0
        /\ (/\ Cardinality(Documents(data)) = 1
            /\ \A i \in Documents(data) : data[i].requests = 0) =>
              parsed.err
====
